---- MODULE Spec2Model ----
(***************************************************************************)
(* libwinit: the bridge between the thread that owns the native winit      *)
(* event loop and the threads that enqueue actions into it and poll the    *)
(* normalized window events out of it.                                     *)
(*                                                                         *)
(* The model follows libwinit/src/application.rs (ApplicationHandle,       *)
(* RunningApplication), window.rs (WindowHandle), events.rs                *)
(* (ApplicationEvents, convert_event) and signallers.rs.                   *)
(*                                                                         *)
(* Specifications:                                                         *)
(*   Spec          the action queue, window creation and the dispatch of   *)
(*                 native events, from the start of the application        *)
(*   FairSpec      the action queue under the scheduling of the loop       *)
(*   EventSpec     the outbound event queue: stepwise pushes, pops         *)
(*   ListenerSpec  listeners registered and called during the dispatch     *)
(*   GeometrySpec  getters, close and native resizes on the same handles   *)
(*   HandleSpec    the operations of a handle around its close             *)
(*   LifecycleSpec the application from before run() to after its loop     *)
(*   ConverterSpec keyboard, text and wheel events through convert_event   *)
(*   ScaleSpec     scale factor changes between size reports               *)
(*   SuppressionSpec sizes with zero dimensions, with resize listeners     *)
(*   BoundarySpec  foreign entry points on null and released addresses     *)
(*   RegistrySpec  stepwise dispatch to open, closed and unknown windows   *)
(*   DispatchSpec  stepwise dispatch of every kind of event, with listeners*)
(*   DrainSpec     actions enqueued by the callbacks of a drain            *)
(*   CacheSpec     the cached geometry under moves, scale changes, resizes *)
(*   CreateSpec    windows created through the foreign entry point         *)
(*   LockSpec      the loop thread and handle operations on all mutexes    *)
(*   ConsumerSpec  a consumer that waits on the semaphore and then pops    *)
(*                 until the queue is empty, under fair scheduling         *)
(* All but Spec, FairSpec and LifecycleSpec start where Spec is once       *)
(* windows were created.                                                   *)
(***************************************************************************)
EXTENDS Integers, Sequences, FiniteSets, TLC

\* --------------------------------------------------------------------------
\* Bounds of the model
\* --------------------------------------------------------------------------
MaxActions == 2
MaxWindows == 2
MaxEvents == 1
NumWakeSignallers == 2
\* native events dispatched step by step
MaxDispatch == 2
\* scale factor and size reports dispatched to the windows
MaxScaleEvents == 3
\* listeners registered, over all handles
MaxListeners == 2

\* --------------------------------------------------------------------------
\* Threads
\* --------------------------------------------------------------------------
Loop == "loop"
Producers == {"p1", "p2"}
Threads == Producers \cup {Loop}
NoThread == "none"

ActionIds == 1..MaxActions
WindowIds == 1..MaxWindows

\* actions.rs: enum ApplicationAction
ActionKinds == {"FunctionCall", "CreateWindow", "RequestWindowSurfaceSize"}

NoAction == [id |-> 0, kind |-> "none", window_id |-> 0]
NoHandle == [id |-> 0, window |-> FALSE]

\* Option<SmolStr> of KeyEvent::text_with_all_modifiers
NoText == [some |-> FALSE, value |-> ""]
SomeText(string) == [some |-> TRUE, value |-> string]
\* winit keys: Key::Named, Key::Character, and Key::Dead for the variants the
\* converter has no case for
NamedKey(name) == [variant |-> "Named", value |-> name]
CharacterKey(ch) == [variant |-> "Character", value |-> ch]
DeadKey == [variant |-> "Dead", value |-> "none"]
KeyLocations == {"Standard", "Left", "Right", "Numpad"}
\* a WindowEvent::KeyboardInput with its KeyEvent: state, location, the two
\* keys, the text and the synthetic flag
KeyboardInput(state, location, logical_key, key_without_modifiers, text, is_synthetic) ==
    [ kind |-> "KeyboardInput",
      state |-> state,
      location |-> location,
      logical_key |-> logical_key,
      key_without_modifiers |-> key_without_modifiers,
      text_with_all_modifiers |-> text,
      is_synthetic |-> is_synthetic ]
\* a key press that carries text: shift and the key `a` of the main block
KeyPressWithText ==
    KeyboardInput("Pressed", "Standard", CharacterKey("A"), CharacterKey("a"),
                  SomeText("A"), FALSE)

\* The native window events the loop is fed with in the main specification.
\* KeyboardInput carries the element state and whether the platform supplied
\* text_with_all_modifiers; SurfaceResized carries the reported size.
NativeEvents ==
    { [kind |-> "RedrawRequested"],
      [kind |-> "PointerEntered"],
      [kind |-> "SurfaceResized", width |-> 0, height |-> 0],
      [kind |-> "SurfaceResized", width |-> 800, height |-> 600],
      KeyPressWithText }

\* What a native window reports to WindowHandle::for_window when the handle
\* is built: outer_position(), surface_size(), scale_factor().
NativeGeometry ==
    [ outer_position |-> [x |-> 10, y |-> 20],
      surface_size |-> [width |-> 640, height |-> 480],
      scale_factor |-> 1 ]

\* WindowData of a handle that was not built yet
NoData ==
    [ outer_position |-> [x |-> 0, y |-> 0],
      surface_size |-> [width |-> 0, height |-> 0],
      scale_factor |-> 0,
      window_redraw_listeners |-> << >>,
      window_resize_listeners |-> << >> ]

NoEvent == [window_id |-> 0, event |-> [kind |-> "none"]]
NoRead == [handle |-> 0, field |-> "none"]
NoResult == [op |-> "none", handle |-> 0, open |-> FALSE, native |-> FALSE,
             result |-> "none"]
NoParams == [window_id |-> 0, event_type |-> "unset"]

\* What is behind an address of the foreign boundary: "none" (nothing was
\* boxed there yet), "value" (a ValueBox that holds its value), "taken" (a
\* ValueBox whose value was taken out) or "released" (the ValueBox was freed)
BoxStates == {"none", "value", "taken", "released"}
NoBoxes ==
    [ application |-> "none",
      application_handle |-> "none",
      window_handle |-> [w \in WindowIds |-> "none"] ]
NoCall == [entry |-> "none", address |-> "none", index |-> 0, box |-> "none",
           found |-> "none", logged |-> FALSE, result |-> "none"]
\* no call of winit_application_handle_create_window was made: every box of
\* window attributes holds its value, no out-pointer was written (0) and no
\* semaphore signaller of a call was signalled
NoCreateCalls ==
    [ window_attributes |-> [a \in ActionIds |-> "value"],
      enqueued |-> {},
      window_handle |-> [a \in ActionIds |-> 0],
      signalled |-> [a \in ActionIds |-> 0] ]
NoSize == [width |-> 0, height |-> 0]
\* a native window that does not exist
NoNative == [scale_factor |-> 0, surface_size |-> NoSize, requested |-> NoSize]

\* The native window events that reach the listeners: the ones window_event
\* passes to the handle before it converts them
ListenerEvents ==
    { event \in NativeEvents : event.kind \in {"SurfaceResized", "RedrawRequested"} }

\* The native window events that change the cached geometry of a handle
ResizeEvents == { event \in NativeEvents : event.kind = "SurfaceResized" }

VARIABLES
    channel,        \* mpsc channel of ApplicationAction (sender/receiver pair)
    nextId,         \* sequence number of the next successful send
    wakePending,    \* EventLoopProxy: a wake-up was requested and not yet delivered
    tpc,            \* per thread: position inside enqueue_action
    lpc,            \* loop thread: position inside the ApplicationHandler
    cur,            \* loop thread: the action taken by try_recv and being handled
    windows,        \* RunningApplication.windows: window id -> handle (0: absent)
    windowsLock,    \* holder of the RunningApplication.windows mutex
    handles,        \* the WindowHandles built so far, by native window
    windowLock,     \* per handle: holder of the WindowHandle.window mutex
    nativeCount,    \* native layer: number of windows created so far (ids are fresh:
                    \* winit's WindowId is unique for each window)
    events,         \* ApplicationEvents: outbound queue of WinitWindowEvent
    semaphore,      \* RunningApplication.semaphore_signaller is Some
    semSignals,     \* number of SemaphoreSignaller::signal calls
    wakeSignals,    \* per wake-up signaller: signal calls since proxy_wake_up was last entered
    dispatched,     \* number of native window events delivered so far
    sentAtStart,    \* number of sends completed when the last proxy_wake_up started
    handled,        \* log of handle_action invocations: <<[id, thread]>>
    callbacks,      \* log of CreateWindow completion callbacks
    nativeCreated,  \* log of windows returned by ActiveEventLoop::create_window
    nativeResizes,  \* log of Window::request_surface_size calls
    data,           \* per handle: WindowHandle.data, the cached WindowData
    dataLock,       \* per handle: holder of the WindowHandle.data mutex
    ev,             \* loop thread: the native window event being dispatched
    li,             \* loop thread: index of the next listener to invoke
    batch,          \* loop thread: converted events not pushed yet
    invocations,    \* log of listener callbacks made for the event being dispatched
    reading,        \* per thread: the geometry getter it is inside of
    pushed,         \* log of every event pushed to ApplicationEvents, in push order
    popped,         \* log of every event returned by pop_event, in pop order
    outParams,      \* memory behind the out-parameters of winit_application_handle_pop_event
    popReturn,      \* last value returned by winit_application_handle_pop_event
    opResult,       \* the last handle operation: what it was called on, whether it
                    \* called the native window, what it returned
    atClose,        \* per handle: WindowData when the native window was taken
    drops,          \* per handle: number of times a native window was dropped
    boxes,          \* the ValueBox behind each address handed over the foreign boundary
    ffi,            \* the last foreign entry point called: what it found, did and returned
    nativeWindows,  \* native layer, per window: its scale factor and the surface size
                    \* last requested through a ScaleFactorChanged size writer
    acquired,       \* the semaphore behind the semaphore signaller: how many of its
                    \* signals the consumer has taken
    createCalls     \* winit_application_handle_create_window: the boxes of window
                    \* attributes, and per enqueued call the caller's out-pointer
                    \* and the signals on the semaphore signaller of the call

vars == << channel, nextId, wakePending, tpc, lpc, cur, windows,
           windowsLock, handles, windowLock, nativeCount, events, semaphore,
           semSignals, wakeSignals, dispatched, sentAtStart, handled, callbacks,
           nativeCreated, nativeResizes, data, dataLock, ev, li, batch,
           invocations, reading, pushed, popped, outParams, popReturn,
           opResult, atClose, drops, boxes, ffi, nativeWindows, acquired,
           createCalls >>

\* --------------------------------------------------------------------------
\* Pure helpers. A definition that models a statement of the code is preceded
\* by the faulty variants of that statement that the claims are tested
\* against.
\* --------------------------------------------------------------------------
\* mpsc::Sender::send: appends at the tail of the channel
send(ch, action) == Append(ch, action)

\* faulty: takes the newest element
try_recv_lifo(ch) == [action |-> ch[Len(ch)], rest |-> SubSeq(ch, 1, Len(ch) - 1)]
\* faulty: returns the oldest element and leaves it in the channel
try_recv_peek(ch) == [action |-> Head(ch), rest |-> ch]
\* faulty: the result of the send is ignored
send_result_ignored(receiver) == "Ok"
\* mpsc::Sender::send: Err(SendError) once the receiver was dropped
send_result(receiver) == IF receiver THEN "Ok" ELSE "Err"

\* mpsc::Receiver::try_recv on a non-empty channel: takes the oldest element
try_recv(ch) == [action |-> Head(ch), rest |-> Tail(ch)]

\* `while let Ok(action) = self.receiver.try_recv()`: the loop condition
try_recv_ok(ch) == ch # << >>

\* faulty: `if let` in place of `while let`, one action per wake-up
after_handle_if_let == "signal"
\* proxy_wake_up: where the loop thread continues after handle_action returned
\* (the `while let` goes back to try_recv)
after_handle == "drain"

\* faulty: the wake-up request does not reach the loop
wake_up_lost(pending) == pending
\* EventLoopProxy::wake_up: requests a (coalesced) proxy_wake_up delivery
wake_up(pending) == TRUE

\* faulty: only the first signaller is signalled
signal_wakeup_first(counts) ==
    [i \in DOMAIN counts |-> IF i = 1 THEN counts[i] + 1 ELSE counts[i]]
\* RunningApplication::signal_wakeup: signals every registered signaller once
signal_wakeup(counts) == [i \in DOMAIN counts |-> counts[i] + 1]

\* faulty: the result of create_window is unwrapped, an Err panics
create_window_unwrap(result) == IF result = "Ok" THEN "cw_callback" ELSE "crashed"
\* handle_action, CreateWindow: `if let Ok(window) = create_window(..)`: the
\* body with the completion callback is entered on Ok, on Err handle_action
\* returns to the drain
create_window_result(result) == IF result = "Ok" THEN "cw_callback" ELSE after_handle

\* faulty: the completion callback is called whatever create_window returned
callback_calls_always(result) == 1
\* handle_action, CreateWindow: (action.callback)(window_handle) is inside
\* the `if let Ok(window)` body
callback_calls(result) == IF result = "Ok" THEN 1 ELSE 0

\* faulty: the handle is given the id of another window
for_window_stale_id(native_id) ==
    [id |-> IF native_id > 1 THEN native_id - 1 ELSE native_id + 1, window |-> TRUE]
\* WindowHandle::for_window: id is window.id(), window is Some(window)
for_window(native_id) == [id |-> native_id, window |-> TRUE]

\* WindowHandle::for_window, the data field: the geometry is read from the
\* native window, both listener lists start empty
window_data(native) ==
    [ outer_position |-> native.outer_position,
      surface_size |-> native.surface_size,
      scale_factor |-> native.scale_factor,
      window_redraw_listeners |-> << >>,
      window_resize_listeners |-> << >> ]

\* the native window WindowHandle::for_window is given: its scale factor and
\* its surface size are the ones window.scale_factor() and
\* window.surface_size() report, no size was requested from it yet
native_window(geometry) ==
    [ scale_factor |-> geometry.scale_factor,
      surface_size |-> geometry.surface_size,
      requested |-> NoSize ]

\* faulty: a 0x0 size is cached like any other
on_window_resized_unfiltered(d, size) == [d EXCEPT !.surface_size = size]
\* WindowHandle::on_window_resized, the cached size: a 0x0 report is ignored,
\* any other size replaces data.surface_size
on_window_resized(d, size) ==
    IF size.width = 0 /\ size.height = 0
    THEN d
    ELSE [d EXCEPT !.surface_size = size]

\* faulty: the handle forgets the position it had cached
on_window_moved_reset(d, position) == [d EXCEPT !.outer_position = [x |-> 0, y |-> 0]]
\* WindowHandle::on_window_moved: the position replaces data.outer_position
on_window_moved(d, position) == [d EXCEPT !.outer_position = position]

\* the size carried by a SurfaceResized event
SizeOf(event) == [width |-> event.width, height |-> event.height]

\* faulty: a window is reported as taken on every call
take_again(window) == [taken |-> TRUE, rest |-> FALSE]
\* Option::take on WindowHandle.window: returns what was there, leaves None
take(window) == [taken |-> window, rest |-> FALSE]

\* faulty: the handle is not registered
insert_skipped(map, key, value) == map
\* faulty: every handle is registered under the same key
insert_first_key(map, key, value) == [map EXCEPT ![1] = value]
\* HashMap::insert under the registry mutex
insert(map, key, value) ==
    IF key \in DOMAIN map THEN [map EXCEPT ![key] = value] ELSE map

\* faulty: one signal per normalized event
semaphore_signals_per_event(n) == n
\* enqueue_event: `if has_events { semaphore.signal() }`, one signal per batch
semaphore_signals(n) == IF n > 0 THEN 1 ELSE 0

\* faulty: the guard is dropped after the check, before the native request
window_guard_dropped(self) == NoThread
\* handle_action, RequestWindowSurfaceSize: the guard of handle.window.lock()
\* lives as long as the `if let Some(window)` body, so `self` still holds the
\* mutex when the native request is made
window_guard(self) == self

\* the boxed string a normalized event points to, and the null pointer
StringBox(string) == [boxed |-> TRUE, string |-> string]
NullString == [boxed |-> FALSE, string |-> ""]
\* keyboard.rs: VirtualKeyCode::from(NamedKey), the code named after the key
VirtualKeyCode_from(key) == [enum |-> "VirtualKeyCode", value |-> key]
\* keyboard.rs: WinitKeyLocation::from(KeyLocation), the location of that name
WinitKeyLocation_from(location) == [enum |-> "WinitKeyLocation", value |-> location]
\* WinitEventKeyboardInput::default()
DefaultKeyboardInput ==
    [ type |-> "Winit30WindowEventKeyboardInput",
      state |-> "Unknown",
      key_type |-> "Unknown",
      key_location |-> WinitKeyLocation_from("Standard"),
      named_key |-> VirtualKeyCode_from("Unknown"),
      character_key |-> NullString,
      is_synthetic |-> FALSE ]

\* faulty: the unmodified key is reported for every location
relevant_key_unmodified(event) == event.key_without_modifiers
\* convert_event, KeyboardInput: the key that is reported
relevant_key(event) ==
    IF event.location # "Numpad"
    THEN event.key_without_modifiers
    ELSE event.logical_key

\* convert_event, KeyboardInput: the keyboard-input event
keyboard_input(event) ==
    LET with_state == [DefaultKeyboardInput EXCEPT !.state = event.state]
        key == relevant_key(event)
        with_key ==
            CASE key.variant = "Named" ->
                    [with_state EXCEPT !.key_type = "Named",
                                       !.named_key = VirtualKeyCode_from(key.value)]
              [] key.variant = "Character" ->
                    [with_state EXCEPT !.key_type = "Character",
                                       !.character_key = StringBox(key.value)]
              [] OTHER -> [with_state EXCEPT !.key_type = "Unknown"]
    IN  [with_key EXCEPT !.key_location = WinitKeyLocation_from(event.location),
                         !.is_synthetic = event.is_synthetic]

\* faulty: the text is reported for a released key as well
text_events_any_state(event) ==
    IF event.text_with_all_modifiers.some
    THEN << [type |-> "Winit30WindowEventReceivedText",
             text |-> StringBox(event.text_with_all_modifiers.value)] >>
    ELSE << >>
\* convert_event, KeyboardInput: the text-received event that follows the
\* keyboard-input event
text_events(event) ==
    IF event.state = "Pressed" /\ event.text_with_all_modifiers.some
    THEN << [type |-> "Winit30WindowEventReceivedText",
             text |-> StringBox(event.text_with_all_modifiers.value)] >>
    ELSE << >>

\* faulty: the delta is passed on as it came
wheel_delta_as_reported(delta) ==
    [delta_type |-> delta.form, x |-> delta.x, y |-> delta.y]
\* convert_event, MouseWheel: the normalized delta of either form
wheel_delta(delta) ==
    CASE delta.form = "LineDelta" ->
            [delta_type |-> "LineDelta", x |-> -delta.x, y |-> delta.y]
      [] delta.form = "PixelDelta" ->
            [delta_type |-> "PixelDelta", x |-> -delta.x, y |-> delta.y]

\* convert_event, MouseWheel: the normalized phase
touch_phase(phase) ==
    CASE phase = "Started" -> "Started"
      [] phase = "Moved" -> "Moved"
      [] phase = "Ended" -> "Ended"
      [] phase = "Cancelled" -> "Cancelled"

\* n / d rounded to the nearest integer, as f64::round does for the sizes here
Round(n, d) == (2 * n + d) \div (2 * d)
\* PhysicalSize::to_logical: each dimension divided by the scale factor
to_logical(size, scale_factor) ==
    [ width |-> [num |-> size.width, den |-> scale_factor],
      height |-> [num |-> size.height, den |-> scale_factor] ]
\* LogicalSize::to_physical: each dimension multiplied by the scale factor
to_physical(logical, scale_factor) ==
    [ width |-> Round(logical.width.num * scale_factor, logical.width.den),
      height |-> Round(logical.height.num * scale_factor, logical.height.den) ]
\* convert_event, ScaleFactorChanged: the size computed from the size and the
\* scale factor that the handle has cached
new_physical_size(event, window) ==
    to_physical(to_logical(window.surface_size, window.scale_factor), event.scale_factor)

\* convert_event, ScaleFactorChanged: surface_size_writer.request_surface_size;
\* the native window has the new scale factor and gets the size that was
\* written
request_surface_size(native, event, window) ==
    [native EXCEPT !.scale_factor = event.scale_factor,
                   !.requested = new_physical_size(event, window),
                   !.surface_size = new_physical_size(event, window)]
\* the native window of an event that is converted: only a ScaleFactorChanged
\* event carries a writer
native_after_convert(native, event, window) ==
    IF event.kind = "ScaleFactorChanged"
    THEN request_surface_size(native, event, window)
    ELSE native
\* the native window that reports a SurfaceResized event has the size it
\* reports (a minimized window reports 0x0 while it keeps its size)
native_after_resize(native, event) ==
    IF event.kind = "SurfaceResized" /\ ~(event.width = 0 /\ event.height = 0)
    THEN [native EXCEPT !.surface_size = [width |-> event.width, height |-> event.height]]
    ELSE native

\* faulty: a size is dropped as soon as one of its dimensions is zero
surface_resized_either_zero(event) ==
    IF event.width = 0 \/ event.height = 0
    THEN << >>
    ELSE << [type |-> "WindowEventResized",
             width |-> event.width, height |-> event.height] >>
\* convert_event, SurfaceResized: a 0x0 size yields nothing, any other size
\* one resize event
surface_resized(event) ==
    IF event.width = 0 /\ event.height = 0
    THEN << >>
    ELSE << [type |-> "WindowEventResized",
             width |-> event.width, height |-> event.height] >>

\* events.rs: convert_event, for the native events of this model; `window` is
\* the WindowData of the handle the event is for
convert_event(event, window) ==
    CASE event.kind = "SurfaceResized" -> surface_resized(event)
      [] event.kind = "CloseRequested" ->
            << [type |-> "WindowEventCloseRequested"] >>
      [] event.kind = "KeyboardInput" ->
            << keyboard_input(event) >> \o text_events(event)
      [] event.kind = "Ime" /\ event.ime = "Commit" ->
            << [type |-> "Winit30WindowEventReceivedText",
                text |-> StringBox(event.string)] >>
      [] event.kind = "Moved" ->
            << [type |-> "WindowEventMoved", x |-> event.x, y |-> event.y] >>
      [] event.kind = "PointerEntered" -> << >>
      [] event.kind = "MouseWheel" ->
            << [type |-> "WindowEventMouseWheel",
                device_id |-> 0,
                phase |-> touch_phase(event.phase),
                delta |-> wheel_delta(event.delta)] >>
      [] event.kind = "ScaleFactorChanged" ->
            << [type |-> "WindowEventScaleFactorChanged",
                scale_factor |-> event.scale_factor,
                width |-> new_physical_size(event, window).width,
                height |-> new_physical_size(event, window).height] >>
      [] event.kind = "RedrawRequested" -> << >>
      [] OTHER -> << >>

\* enqueue_event: push_event for each converted event, tagged with window_id
push_events(queue, window_id, converted) ==
    queue \o [i \in 1..Len(converted) |-> [window_id |-> window_id, event |-> converted[i]]]

HandledIds == { handled[i].id : i \in 1..Len(handled) }

\* --------------------------------------------------------------------------
\* Initial state: ApplicationBuilder::build followed by Application::run
\* --------------------------------------------------------------------------
Init ==
    /\ channel = << >>
    /\ nextId = 1
    /\ wakePending = FALSE
    /\ tpc = [t \in Threads |-> "idle"]
    /\ lpc = "waiting"
    /\ cur = NoAction
    /\ windows = [w \in WindowIds |-> 0]
    /\ windowsLock = NoThread
    /\ handles = [w \in WindowIds |-> NoHandle]
    /\ windowLock = [w \in WindowIds |-> NoThread]
    /\ nativeCount = 0
    /\ events = << >>
    /\ semaphore \in BOOLEAN
    /\ acquired = 0
    /\ createCalls = NoCreateCalls
    /\ semSignals = 0
    /\ wakeSignals = [i \in 1..NumWakeSignallers |-> 0]
    /\ dispatched = 0
    /\ sentAtStart = 0
    /\ handled = << >>
    /\ callbacks = << >>
    /\ nativeCreated = << >>
    /\ nativeResizes = << >>
    /\ data = [w \in WindowIds |-> NoData]
    /\ dataLock = [w \in WindowIds |-> NoThread]
    /\ ev = NoEvent
    /\ li = 1
    /\ batch = << >>
    /\ invocations = << >>
    /\ reading = [t \in Threads |-> NoRead]
    /\ pushed = << >>
    /\ popped = << >>
    /\ outParams = NoParams
    /\ popReturn = "none"
    /\ opResult = NoResult
    /\ atClose = [w \in WindowIds |-> NoData]
    /\ drops = [w \in WindowIds |-> 0]
    /\ boxes = [NoBoxes EXCEPT !.application = "taken",
                               !.application_handle = "value"]
    /\ ffi = NoCall
    /\ nativeWindows = [w \in WindowIds |-> NoNative]

\* --------------------------------------------------------------------------
\* User code: producer threads at any time, the loop thread while it is
\* inside a FunctionCall callback or a CreateWindow completion callback
\* --------------------------------------------------------------------------
InCallback == lpc \in {"fn_callback", "cw_callback"}
CanRun(t) == reading[t] = NoRead /\ (t \in Producers \/ InCallback)

LoopVars == << lpc, cur, windows, windowsLock, nativeCount, events, semSignals,
               wakeSignals, dispatched, sentAtStart, handled,
               callbacks, nativeCreated, nativeResizes >>
ConfigVars == << semaphore, acquired, createCalls >>
DataVars == << data, dataLock >>
DispatchVars == << ev, li, batch, invocations >>
QueueLogVars == << pushed, popped, outParams, popReturn >>
OpVars == << opResult, reading >>
CloseVars == << atClose, drops >>
BoundaryVars == << boxes, ffi, nativeWindows >>
WindowVars == << DataVars, DispatchVars, QueueLogVars, OpVars, CloseVars,
                BoundaryVars >>

\* The application is Idle until Application::run is entered, Running while
\* the loop thread is inside run_app, Terminated once run_app was left
Lifecycle ==
    CASE lpc = "idle" -> "Idle"
      [] lpc \in {"terminated", "crashed"} -> "Terminated"
      [] OTHER -> "Running"

\* The Receiver of the action channel is a field of Application and then of
\* RunningApplication: it is dropped with the RunningApplication when
\* run_app is left
ReceiverAlive == Lifecycle # "Terminated"

\* ApplicationHandle::enqueue_action, first statement:
\* self.sender.send(action).unwrap(). The unwrap panics on Err: the call is
\* left before self.wake_up()
Send(t, kind, wid) ==
    /\ CanRun(t)
    /\ tpc[t] = "idle"
    /\ nextId <= MaxActions
    /\ IF send_result(ReceiverAlive) = "Ok"
       THEN /\ channel' = send(channel, [id |-> nextId, kind |-> kind, window_id |-> wid])
            /\ nextId' = nextId + 1
            /\ tpc' = [tpc EXCEPT ![t] = "sent"]
       ELSE /\ channel' = channel
            /\ nextId' = nextId
            /\ tpc' = [tpc EXCEPT ![t] = "panicked"]
    /\ UNCHANGED << wakePending, handles, windowLock, LoopVars, ConfigVars, WindowVars >>

\* enqueue_action(ApplicationAction::FunctionCall(..))
EnqueueFunctionCall(t) == Send(t, "FunctionCall", 0)

\* ApplicationHandle::create_window
CreateWindow(t) == Send(t, "CreateWindow", 0)

\* WindowHandle::request_surface_size, or enqueue_action with a
\* RequestWindowSurfaceSizeAction built by the caller for any window id
RequestSurfaceSize(t, wid) == Send(t, "RequestWindowSurfaceSize", wid)

\* ApplicationHandle::enqueue_action, second statement: self.wake_up()
EnqueueWake(t) ==
    /\ tpc[t] = "sent"
    /\ wakePending' = wake_up(wakePending)
    /\ tpc' = [tpc EXCEPT ![t] = "idle"]
    /\ UNCHANGED << channel, nextId, handles, windowLock, LoopVars, ConfigVars, WindowVars >>

\* ApplicationHandle::wake_up called on its own (winit_application_wake)
WakeUp(t) ==
    /\ CanRun(t)
    /\ tpc[t] = "idle"
    /\ wakePending' = wake_up(wakePending)
    /\ UNCHANGED << channel, nextId, tpc, handles, windowLock, LoopVars, ConfigVars, WindowVars >>

\* WindowHandle::close_window on a clone of handle h: takes the native window
\* under the window mutex; whatever was taken is dropped
TakeWindow(t, h) ==
    /\ CanRun(t)
    /\ tpc[t] = "idle"
    /\ handles[h] # NoHandle
    /\ windowLock[h] = NoThread
    /\ LET window == take(handles[h].window)
       IN  /\ handles' = [handles EXCEPT ![h].window = window.rest]
           /\ drops' = [drops EXCEPT ![h] = IF window.taken THEN @ + 1 ELSE @]
    /\ UNCHANGED << channel, nextId, wakePending, tpc, windowLock,
                    LoopVars, ConfigVars, DataVars, DispatchVars,
                    QueueLogVars, reading, BoundaryVars >>

\* close_window where the outcome of handle operations is not observed
CloseWindow(t, h) ==
    /\ TakeWindow(t, h)
    /\ UNCHANGED << opResult, atClose >>

\* close_window where the outcome of handle operations is observed: the call
\* is recorded with whether the handle was open and whether a window was
\* dropped, and the cached data is remembered when the window is taken
CloseWindowObserved(t, h) ==
    /\ TakeWindow(t, h)
    /\ atClose' = IF take(handles[h].window).taken
                  THEN [atClose EXCEPT ![h] = data[h]]
                  ELSE atClose
    /\ opResult' = [op |-> "close_window", handle |-> h,
                    open |-> handles[h].window,
                    native |-> take(handles[h].window).taken,
                    result |-> "Unit"]

\* --------------------------------------------------------------------------
\* The loop thread: impl ApplicationHandler for RunningApplication
\* --------------------------------------------------------------------------
UserVars == << nextId, tpc >>

\* proxy_wake_up is entered: the pending wake-up is delivered
ProxyWakeUpBegin ==
    /\ lpc = "waiting"
    /\ wakePending
    /\ wakePending' = FALSE
    /\ lpc' = "drain"
    /\ wakeSignals' = [i \in DOMAIN wakeSignals |-> 0]
    /\ sentAtStart' = nextId - 1
    /\ UNCHANGED << channel, cur, windows, windowsLock, handles, windowLock,
                    nativeCount, events, semSignals, dispatched,
                    handled, callbacks, nativeCreated, nativeResizes,
                    UserVars, ConfigVars, WindowVars >>

\* try_recv returned Err(Empty): the while loop is left
DrainEmpty ==
    /\ lpc = "drain"
    /\ ~try_recv_ok(channel)
    /\ lpc' = "signal"
    /\ UNCHANGED << channel, wakePending, cur, windows, windowsLock, handles,
                    windowLock, nativeCount, events, semSignals, wakeSignals,
                    dispatched, sentAtStart, handled, callbacks,
                    nativeCreated, nativeResizes, UserVars, ConfigVars, WindowVars >>

\* self.signal_wakeup() and return from proxy_wake_up
SignalWakeup ==
    /\ lpc = "signal"
    /\ wakeSignals' = signal_wakeup(wakeSignals)
    /\ lpc' = "waiting"
    /\ UNCHANGED << channel, wakePending, cur, windows, windowsLock, handles,
                    windowLock, nativeCount, events, semSignals, dispatched,
                    sentAtStart, handled, callbacks, nativeCreated,
                    nativeResizes, UserVars, ConfigVars, WindowVars >>

\* try_recv returned Ok(action): handle_action is entered on thread self
Received(self, kind) ==
    /\ lpc = "drain"
    /\ try_recv_ok(channel)
    /\ try_recv(channel).action.kind = kind
    /\ channel' = try_recv(channel).rest
    /\ cur' = try_recv(channel).action
    /\ handled' = Append(handled, [id |-> try_recv(channel).action.id, thread |-> self])

\* handle_action, FunctionCall: (action.callback)(action.thunk) is entered
HandleFunctionCall ==
    /\ Received(Loop, "FunctionCall")
    /\ lpc' = "fn_callback"
    /\ UNCHANGED << wakePending, windows, windowsLock, handles, windowLock,
                    nativeCount, events, semSignals, wakeSignals, dispatched,
                    sentAtStart, callbacks, nativeCreated,
                    nativeResizes, UserVars, ConfigVars, WindowVars >>

\* handle_action, CreateWindow, event_loop.create_window returned Ok(window):
\* the handle is built and registered, the completion callback is entered
HandleCreateWindowOk ==
    /\ Received(Loop, "CreateWindow")
    /\ nativeCount < MaxWindows
    /\ LET native_id == nativeCount + 1
           window_handle == for_window(native_id)
       IN  /\ nativeCount' = native_id
           /\ nativeCreated' = Append(nativeCreated, [action |-> cur'.id, id |-> native_id])
           /\ handles' = [handles EXCEPT ![native_id] = window_handle]
           /\ data' = [data EXCEPT ![native_id] = window_data(NativeGeometry)]
           /\ nativeWindows' = [nativeWindows EXCEPT ![native_id] = native_window(NativeGeometry)]
           /\ boxes' = [boxes EXCEPT !.window_handle[native_id] = "value"]
           /\ windows' = insert(windows, window_handle.id, native_id)
           /\ callbacks' = IF callback_calls("Ok") = 1
                           THEN Append(callbacks, [action |-> cur'.id, thread |-> Loop,
                                                   handle |-> native_id,
                                                   handle_id |-> window_handle.id])
                           ELSE callbacks
    /\ lpc' = create_window_result("Ok")
    /\ UNCHANGED << wakePending, windowsLock, windowLock, events, semSignals,
                    wakeSignals, dispatched, sentAtStart,
                    nativeResizes, UserVars, ConfigVars, dataLock,
                    DispatchVars, QueueLogVars, OpVars, CloseVars, ffi >>

\* handle_action, CreateWindow, event_loop.create_window returned Err: dropped
HandleCreateWindowErr ==
    /\ Received(Loop, "CreateWindow")
    /\ callbacks' = IF callback_calls("Err") = 1
                    THEN Append(callbacks, [action |-> cur'.id, thread |-> Loop,
                                            handle |-> 0, handle_id |-> 0])
                    ELSE callbacks
    /\ lpc' = create_window_result("Err")
    /\ UNCHANGED << wakePending, windows, windowsLock, handles, windowLock,
                    nativeCount, events, semSignals, wakeSignals, dispatched,
                    sentAtStart, nativeCreated,
                    nativeResizes, UserVars, ConfigVars, WindowVars >>

\* the FunctionCall callback or the CreateWindow completion callback returns
CallbackReturn ==
    /\ InCallback
    /\ tpc[Loop] = "idle"
    /\ lpc' = after_handle
    /\ UNCHANGED << channel, wakePending, cur, windows, windowsLock, handles,
                    windowLock, nativeCount, events, semSignals, wakeSignals,
                    dispatched, sentAtStart, handled, callbacks,
                    nativeCreated, nativeResizes, UserVars, ConfigVars, WindowVars >>

\* faulty: a window id is looked up only while its handle is open
registered_while_open(wid) ==
    wid \in DOMAIN windows /\ windows[wid] # 0 /\ handles[windows[wid]].window
\* handle_action, RequestWindowSurfaceSize: the id is looked up under the
\* registry mutex and the native window under the window mutex
Registered(wid) == wid \in DOMAIN windows /\ windows[wid] # 0

HandleResizeOpen ==
    /\ Received(Loop, "RequestWindowSurfaceSize")
    /\ windowsLock = NoThread
    /\ Registered(cur'.window_id)
    /\ LET h == windows[cur'.window_id]
       IN  /\ windowLock[h] = NoThread
           /\ handles[h].window
           /\ windowLock' = [windowLock EXCEPT ![h] = window_guard(Loop)]
    /\ windowsLock' = Loop
    /\ lpc' = "resize_native"
    /\ UNCHANGED << wakePending, windows, handles, nativeCount, events,
                    semSignals, wakeSignals, dispatched, sentAtStart,
                    callbacks, nativeCreated, nativeResizes, UserVars, ConfigVars, WindowVars >>

\* window.request_surface_size(action.surface_size), then both guards drop
HandleResizeNative ==
    /\ lpc = "resize_native"
    /\ LET h == windows[cur.window_id]
       IN  /\ nativeResizes' = Append(nativeResizes,
                  [action |-> cur.id, window_id |-> cur.window_id,
                   open |-> handles[h].window])
           /\ windowLock' = [windowLock EXCEPT ![h] = NoThread]
    /\ windowsLock' = NoThread
    /\ lpc' = after_handle
    /\ UNCHANGED << channel, wakePending, cur, windows, handles, nativeCount,
                    events, semSignals, wakeSignals, dispatched, sentAtStart, handled, callbacks, nativeCreated,
                    UserVars, ConfigVars, WindowVars >>

\* handle_action, RequestWindowSurfaceSize: the id is not registered, or the
\* native window was taken: nothing is done
HandleResizeDropped ==
    /\ Received(Loop, "RequestWindowSurfaceSize")
    /\ windowsLock = NoThread
    /\ \/ ~Registered(cur'.window_id)
       \/ /\ Registered(cur'.window_id)
          /\ windowLock[windows[cur'.window_id]] = NoThread
          /\ ~handles[windows[cur'.window_id]].window
    /\ lpc' = after_handle
    /\ UNCHANGED << wakePending, windows, windowsLock, handles, windowLock,
                    nativeCount, events, semSignals, wakeSignals, dispatched,
                    sentAtStart, callbacks, nativeCreated,
                    nativeResizes, UserVars, ConfigVars, WindowVars >>

\* window_event followed by enqueue_event, for a window id that is registered,
\* as one step of the loop thread (the main specification registers no
\* listener, so no user code runs inside the handler)
WindowEventUpTo(limit, wid, event) ==
    /\ lpc = "waiting"
    /\ dispatched < limit
    /\ windowsLock = NoThread
    /\ Registered(wid)
    /\ dataLock[windows[wid]] = NoThread
    /\ dispatched' = dispatched + 1
    /\ data' = IF event.kind = "SurfaceResized"
               THEN [data EXCEPT ![windows[wid]] = on_window_resized(@, SizeOf(event))]
               ELSE data
    /\ LET window == data'[windows[wid]]
           converted == convert_event(event, window)
       IN  /\ nativeWindows' =
                 [nativeWindows EXCEPT ![windows[wid]] =
                     native_after_convert(native_after_resize(@, event), event, window)]
           /\ events' = push_events(events, wid, converted)
           /\ pushed' = push_events(pushed, wid, converted)
           /\ semSignals' = IF semaphore
                            THEN semSignals + semaphore_signals(Len(converted))
                            ELSE semSignals
    /\ UNCHANGED << channel, wakePending, lpc, cur, windows, windowsLock, handles,
                    windowLock, nativeCount, wakeSignals, sentAtStart,
                    handled, callbacks, nativeCreated, nativeResizes,
                    UserVars, ConfigVars, dataLock, li, batch, invocations,
                    popped, outParams, popReturn, OpVars, CloseVars, boxes, ffi >>

\* the same step in the main specification, which dispatches MaxEvents events
WindowEvent(wid, event) ==
    /\ WindowEventUpTo(MaxEvents, wid, event)
    /\ UNCHANGED ev

\* the same step with the event that was dispatched kept in `ev`
WindowEventObserved(limit, wid, event) ==
    /\ WindowEventUpTo(limit, wid, event)
    /\ ev' = [window_id |-> wid, event |-> event, listeners |-> << >>]

\* window_event followed by enqueue_event, for a window id that is not registered
WindowEventUnknown(wid, event) ==
    /\ lpc = "waiting"
    /\ dispatched < MaxEvents
    /\ windowsLock = NoThread
    /\ ~Registered(wid)
    /\ dispatched' = dispatched + 1
    /\ UNCHANGED << channel, wakePending, lpc, cur, windows, windowsLock, handles,
                    windowLock, nativeCount, events, semSignals, wakeSignals,
                    sentAtStart, handled, callbacks, nativeCreated,
                    nativeResizes, UserVars, ConfigVars, WindowVars >>

\* faulty: take_value hands out the value again
take_value_kept(box) ==
    IF box \in {"value", "taken"}
    THEN [result |-> "Ok", box |-> "value"]
    ELSE [result |-> "NullPointer", box |-> box]
\* ValueBoxPointer::take_value on an address that is null or holds a box:
\* the value is moved out once, the box stays allocated without a value
take_value(box) ==
    CASE box = "value" -> [result |-> "Ok", box |-> "taken"]
      [] box = "taken" -> [result |-> "NoValue", box |-> "taken"]
      [] OTHER -> [result |-> "NullPointer", box |-> box]

\* winit_application_run on thread t: the Application is taken out of its
\* box and run() enters the native loop on the calling thread, which is the
\* loop thread from then on; if there is no value to take, the error is
\* logged and the call returns
WinitApplicationRun(t) ==
    /\ IF t = Loop THEN lpc \in {"idle", "terminated"}
                   ELSE tpc[t] = "idle" /\ lpc # "idle"
    /\ boxes.application \in {"value", "taken"}
    /\ LET application == take_value(boxes.application)
       IN  /\ boxes' = [boxes EXCEPT !.application = application.box]
           /\ lpc' = IF application.result = "Ok" THEN "waiting" ELSE lpc
           /\ ffi' = [entry |-> "winit_application_run", address |-> "application",
                      index |-> 0, box |-> boxes.application,
                      found |-> application.result,
                      logged |-> application.result # "Ok",
                      result |-> "Unit"]
    /\ UNCHANGED << channel, nextId, wakePending, tpc, cur, windows, windowsLock,
                    handles, windowLock, nativeCount, events, semSignals,
                    wakeSignals, dispatched, sentAtStart, handled, callbacks,
                    nativeCreated, nativeResizes, ConfigVars, DataVars,
                    DispatchVars, QueueLogVars, OpVars, CloseVars, nativeWindows >>

\* the native layer leaves run_app while the loop thread waits for the next
\* event: Application::run returns, the RunningApplication is dropped and
\* with it the receiver and the actions still in the channel
LoopExit ==
    /\ lpc = "waiting"
    /\ lpc' = "terminated"
    /\ channel' = << >>
    /\ UNCHANGED << nextId, wakePending, tpc, cur, windows, windowsLock, handles,
                    windowLock, nativeCount, events, semSignals, wakeSignals,
                    dispatched, sentAtStart, handled, callbacks, nativeCreated,
                    nativeResizes, ConfigVars, WindowVars >>

\* the FunctionCall callback or the CreateWindow completion callback panics:
\* handle_action, proxy_wake_up and Application::run catch nothing, the panic
\* leaves run_app and the RunningApplication is dropped on the way
CallbackPanic ==
    /\ InCallback
    /\ tpc[Loop] = "idle"
    /\ lpc' = "crashed"
    /\ channel' = << >>
    /\ UNCHANGED << nextId, wakePending, tpc, cur, windows, windowsLock, handles,
                    windowLock, nativeCount, events, semSignals, wakeSignals,
                    dispatched, sentAtStart, handled, callbacks, nativeCreated,
                    nativeResizes, ConfigVars, WindowVars >>

LoopStep ==
    \/ ProxyWakeUpBegin
    \/ DrainEmpty
    \/ SignalWakeup
    \/ HandleFunctionCall
    \/ HandleCreateWindowOk
    \/ HandleCreateWindowErr
    \/ CallbackReturn
    \/ HandleResizeOpen
    \/ HandleResizeNative
    \/ HandleResizeDropped

Next ==
    \/ \E t \in Threads : EnqueueFunctionCall(t)
    \/ \E t \in Threads : CreateWindow(t)
    \/ \E t \in Threads, wid \in WindowIds : RequestSurfaceSize(t, wid)
    \/ \E t \in Threads : EnqueueWake(t)
    \/ \E t \in Threads : WakeUp(t)
    \/ \E t \in Threads, h \in WindowIds : CloseWindow(t, h)
    \/ ProxyWakeUpBegin
    \/ DrainEmpty
    \/ SignalWakeup
    \/ HandleFunctionCall
    \/ HandleCreateWindowOk
    \/ HandleCreateWindowErr
    \/ CallbackReturn
    \/ HandleResizeOpen
    \/ HandleResizeNative
    \/ HandleResizeDropped
    \/ \E wid \in WindowIds, event \in NativeEvents : WindowEvent(wid, event)
    \/ \E wid \in WindowIds, event \in NativeEvents : WindowEventUnknown(wid, event)

Spec == Init /\ [][Next]_vars

\* The action queue on its own: every step of Next but the native window
\* events, which run between two handlers of the loop thread and touch
\* neither the channel nor the proxy.
QueueNext ==
    \/ \E t \in Threads : EnqueueFunctionCall(t)
    \/ \E t \in Threads : CreateWindow(t)
    \/ \E t \in Threads, wid \in WindowIds : RequestSurfaceSize(t, wid)
    \/ \E t \in Threads : EnqueueWake(t)
    \/ \E t \in Threads : WakeUp(t)
    \/ \E t \in Threads, h \in WindowIds : CloseWindow(t, h)
    \/ LoopStep

\* Callbacks that enqueue: a producer enqueues the first action, a
\* FunctionCall or a CreateWindow, and every later action is enqueued on the
\* loop thread, by the callback of the action that is being handled.
FirstAction(t) ==
    /\ nextId = 1
    /\ EnqueueFunctionCall(t) \/ CreateWindow(t)

DrainNext ==
    \/ FirstAction("p1")
    \/ EnqueueFunctionCall(Loop)
    \/ CreateWindow(Loop)
    \/ \E wid \in WindowIds : RequestSurfaceSize(Loop, wid)
    \/ \E t \in {"p1", Loop} : EnqueueWake(t)
    \/ LoopStep

DrainSpec == Init /\ [][DrainNext]_vars

\* The scheduling the liveness claims rest on: the loop thread keeps running
\* (a requested wake-up is eventually delivered as proxy_wake_up, a handler
\* that was entered runs to its end, a user callback returns) and a thread
\* that is inside enqueue_action reaches its wake_up call.
FairSpec ==
    /\ Init
    /\ [][QueueNext]_vars
    /\ WF_vars(LoopStep)
    /\ \A t \in Threads : WF_vars(EnqueueWake(t))

\* --------------------------------------------------------------------------
\* Windows: the event dispatch of the loop thread step by step, the outbound
\* event queue and the operations of WindowHandle. User code runs inside the
\* listeners, so window_event is not one step here.
\* --------------------------------------------------------------------------

\* the variables the window handlers and the handle operations never write
ActionVars == << channel, nextId, wakePending, tpc, cur, windows, nativeCount,
                 wakeSignals, sentAtStart, handled, callbacks, nativeCreated,
                 nativeResizes, semaphore, acquired, createCalls, boxes, ffi >>

\* the handle a registered window id maps to
HandleOf(wid) == windows[wid]

\* faulty: window_event goes straight to enqueue_event
match_event_skipped(kind) == "enqueue_event"
\* window_event, the match on the event: SurfaceResized and RedrawRequested
\* first go through the handle, every other event goes to enqueue_event
match_event(kind) ==
    CASE kind = "SurfaceResized" -> "on_window_resized"
      [] kind = "RedrawRequested" -> "on_window_redraw"
      [] OTHER -> "enqueue_event"

\* faulty: the listeners are visited from the last one to the first
listener_at_reversed(listeners, i) == listeners[Len(listeners) + 1 - i]
\* for listener in &lock.window_resize_listeners: the i-th listener visited
listener_at(listeners, i) == listeners[i]

\* Vec::push in add_resized_listener and add_redraw_listener
push_listener(listeners, listener) == Append(listeners, listener)

\* faulty: the newest event is returned
pop_front_newest(queue) ==
    IF queue = << >>
    THEN [some |-> FALSE, rest |-> queue]
    ELSE [some |-> TRUE, value |-> queue[Len(queue)],
          rest |-> SubSeq(queue, 1, Len(queue) - 1)]
\* VecDeque::pop_front in ApplicationEvents::pop_event
pop_front(queue) ==
    IF queue = << >>
    THEN [some |-> FALSE, rest |-> queue]
    ELSE [some |-> TRUE, value |-> Head(queue), rest |-> Tail(queue)]

\* faulty: the out-parameters are cleared when there is no event
out_params_cleared(params, popped_event) ==
    IF popped_event.some
    THEN [window_id |-> popped_event.value.window_id,
          event_type |-> popped_event.value.event.type]
    ELSE NoParams
\* winit_application_handle_pop_event: the out-parameters are written inside
\* the map over Some(window_event) only
out_params(params, popped_event) ==
    IF popped_event.some
    THEN [window_id |-> popped_event.value.window_id,
          event_type |-> popped_event.value.event.type]
    ELSE params

\* window_event is entered with a SurfaceResized event for a registered
\* window: on_window_resized locks the data, stores the size and starts to
\* call the resize listeners (a 0x0 size returns before the lock is taken)
DispatchResized(wid, event) ==
    /\ lpc = "waiting"
    /\ dispatched < MaxDispatch
    /\ windowsLock = NoThread
    /\ match_event(event.kind) = "on_window_resized"
    /\ Registered(wid)
    /\ LET h == HandleOf(wid)
           size == SizeOf(event)
           ignored == size.width = 0 /\ size.height = 0
       IN  /\ ~ignored => dataLock[h] = NoThread
           /\ data' = [data EXCEPT ![h] = on_window_resized(@, size)]
           /\ dataLock' = IF ignored THEN dataLock ELSE [dataLock EXCEPT ![h] = Loop]
           /\ windowsLock' = IF ignored THEN NoThread ELSE Loop
           /\ lpc' = IF ignored THEN "enqueue_event" ELSE "listeners"
           /\ ev' = [window_id |-> wid, event |-> event,
                     listeners |-> IF ignored THEN << >>
                                   ELSE data[h].window_resize_listeners]
    /\ nativeWindows' = [nativeWindows EXCEPT ![HandleOf(wid)] =
                              native_after_resize(@, event)]
    /\ dispatched' = dispatched + 1
    /\ li' = 1
    /\ invocations' = << >>
    /\ UNCHANGED << ActionVars, handles, windowLock, events, semSignals, batch,
                    QueueLogVars, OpVars, CloseVars >>

\* window_event is entered with RedrawRequested for a registered window:
\* on_window_redraw locks the data and starts to call the redraw listeners
DispatchRedraw(wid, event) ==
    /\ lpc = "waiting"
    /\ dispatched < MaxDispatch
    /\ windowsLock = NoThread
    /\ match_event(event.kind) = "on_window_redraw"
    /\ Registered(wid)
    /\ dataLock[HandleOf(wid)] = NoThread
    /\ dataLock' = [dataLock EXCEPT ![HandleOf(wid)] = Loop]
    /\ windowsLock' = Loop
    /\ lpc' = "listeners"
    /\ ev' = [window_id |-> wid, event |-> event,
              listeners |-> data[HandleOf(wid)].window_redraw_listeners]
    /\ dispatched' = dispatched + 1
    /\ li' = 1
    /\ invocations' = << >>
    /\ UNCHANGED << ActionVars, handles, windowLock, events, semSignals, data,
                    batch, QueueLogVars, OpVars, CloseVars, nativeWindows >>

\* window_event is entered with any other event, or for a window id that is
\* not registered: the match does nothing
DispatchOther(wid, event) ==
    /\ lpc = "waiting"
    /\ dispatched < MaxDispatch
    /\ windowsLock = NoThread
    /\ match_event(event.kind) = "enqueue_event" \/ ~Registered(wid)
    /\ lpc' = "enqueue_event"
    /\ ev' = [window_id |-> wid, event |-> event, listeners |-> << >>]
    /\ dispatched' = dispatched + 1
    /\ li' = 1
    /\ invocations' = << >>
    /\ UNCHANGED << ActionVars, windowsLock, handles, windowLock, events,
                    semSignals, DataVars, batch, QueueLogVars, OpVars, CloseVars, nativeWindows >>

\* the listeners of the event being dispatched, as the loop iterates them
CurrentListeners ==
    IF ev.event.kind = "SurfaceResized"
    THEN data[HandleOf(ev.window_id)].window_resize_listeners
    ELSE data[HandleOf(ev.window_id)].window_redraw_listeners

\* the arguments a listener is called with: the event's size for a resize
\* listener, nothing for a redraw listener
ListenerCall(listener) ==
    IF ev.event.kind = "SurfaceResized"
    THEN [listener |-> listener, kind |-> "resized",
          width |-> ev.event.width, height |-> ev.event.height]
    ELSE [listener |-> listener, kind |-> "redraw", width |-> 0, height |-> 0]

\* one iteration of the for loop of on_window_resized / on_window_redraw:
\* the callback of the next listener is entered, the data mutex being held
InvokeListener ==
    /\ lpc = "listeners"
    /\ li <= Len(CurrentListeners)
    /\ invocations' = Append(invocations, ListenerCall(listener_at(CurrentListeners, li)))
    /\ lpc' = "in_listener"
    /\ UNCHANGED << ActionVars, windowsLock, handles, windowLock, events,
                    semSignals, dispatched, DataVars, ev, li, batch,
                    QueueLogVars, OpVars, CloseVars, nativeWindows >>

\* the listener callback returns
ListenerReturn ==
    /\ lpc = "in_listener"
    /\ reading[Loop] = NoRead
    /\ li' = li + 1
    /\ lpc' = "listeners"
    /\ UNCHANGED << ActionVars, windowsLock, handles, windowLock, events,
                    semSignals, dispatched, DataVars, ev, batch, invocations,
                    QueueLogVars, OpVars, CloseVars, nativeWindows >>

\* faulty: the registry guard outlives the match and is still held when
\* enqueue_event locks the registry
ListenersDoneGuardKept ==
    /\ lpc = "listeners"
    /\ li > Len(CurrentListeners)
    /\ dataLock' = [dataLock EXCEPT ![HandleOf(ev.window_id)] = NoThread]
    /\ lpc' = "enqueue_event"
    /\ UNCHANGED << ActionVars, windowsLock, handles, windowLock, events, semSignals,
                    dispatched, data, DispatchVars, QueueLogVars, OpVars, CloseVars, nativeWindows >>
\* the for loop is over: the data guard and then the registry guard are dropped
ListenersDone ==
    /\ lpc = "listeners"
    /\ li > Len(CurrentListeners)
    /\ dataLock' = [dataLock EXCEPT ![HandleOf(ev.window_id)] = NoThread]
    /\ windowsLock' = NoThread
    /\ lpc' = "enqueue_event"
    /\ UNCHANGED << ActionVars, handles, windowLock, events, semSignals,
                    dispatched, data, DispatchVars, QueueLogVars, OpVars, CloseVars, nativeWindows >>

\* faulty: the semaphore is signalled as soon as the event is converted
EnqueueEventSignalledFirst ==
    /\ lpc = "enqueue_event"
    /\ windowsLock = NoThread
    /\ Registered(ev.window_id)
    /\ windowsLock' = Loop
    /\ batch' = convert_event(ev.event, data[HandleOf(ev.window_id)])
    /\ semSignals' = IF semaphore
                     THEN semSignals + semaphore_signals(Len(batch'))
                     ELSE semSignals
    /\ nativeWindows' =
          [nativeWindows EXCEPT ![HandleOf(ev.window_id)] =
              native_after_convert(@, ev.event, data[HandleOf(ev.window_id)])]
    /\ lpc' = "push_events"
    /\ UNCHANGED << ActionVars, handles, windowLock, events,
                    dispatched, DataVars, ev, li, invocations, QueueLogVars,
                    OpVars, CloseVars >>
\* enqueue_event for a registered window id: the registry is locked and the
\* event is converted
EnqueueEvent ==
    /\ lpc = "enqueue_event"
    /\ windowsLock = NoThread
    /\ Registered(ev.window_id)
    /\ windowsLock' = Loop
    /\ batch' = convert_event(ev.event, data[HandleOf(ev.window_id)])
    /\ nativeWindows' =
          [nativeWindows EXCEPT ![HandleOf(ev.window_id)] =
              native_after_convert(@, ev.event, data[HandleOf(ev.window_id)])]
    /\ lpc' = "push_events"
    /\ UNCHANGED << ActionVars, handles, windowLock, events, semSignals,
                    dispatched, DataVars, ev, li, invocations, QueueLogVars,
                    OpVars, CloseVars >>

\* faulty: the semaphore is signalled for a window id that is not registered
EnqueueEventUnknownSignalled ==
    /\ lpc = "enqueue_event"
    /\ windowsLock = NoThread
    /\ ~Registered(ev.window_id)
    /\ lpc' = "waiting"
    /\ semSignals' = semSignals + 1
    /\ UNCHANGED << ActionVars, windowsLock, handles, windowLock, events,
                    dispatched, DataVars, DispatchVars,
                    QueueLogVars, OpVars, CloseVars, nativeWindows >>
\* enqueue_event for a window id that is not registered: nothing is done
EnqueueEventUnknown ==
    /\ lpc = "enqueue_event"
    /\ windowsLock = NoThread
    /\ ~Registered(ev.window_id)
    /\ lpc' = "waiting"
    /\ UNCHANGED << ActionVars, windowsLock, handles, windowLock, events,
                    semSignals, dispatched, DataVars, DispatchVars,
                    QueueLogVars, OpVars, CloseVars, nativeWindows >>

\* one iteration of for event in events: push_event locks the queue, pushes
\* at the back and unlocks
PushEvent ==
    /\ lpc = "push_events"
    /\ batch # << >>
    /\ events' = push_events(events, ev.window_id, << Head(batch) >>)
    /\ pushed' = push_events(pushed, ev.window_id, << Head(batch) >>)
    /\ batch' = Tail(batch)
    /\ UNCHANGED << ActionVars, lpc, windowsLock, handles, windowLock,
                    semSignals, dispatched, DataVars, ev, li, invocations,
                    popped, outParams, popReturn, OpVars, CloseVars, nativeWindows >>

\* the end of enqueue_event: the semaphore is signalled if the conversion
\* produced events and a semaphore signaller is configured, then the registry
\* guard is dropped
EnqueueEventEnd ==
    /\ lpc = "push_events"
    /\ batch = << >>
    /\ semSignals' = IF semaphore
                     THEN semSignals + semaphore_signals(
                                Len(convert_event(ev.event, data[HandleOf(ev.window_id)])))
                     ELSE semSignals
    /\ windowsLock' = NoThread
    /\ lpc' = "waiting"
    /\ UNCHANGED << ActionVars, handles, windowLock, events, dispatched,
                    DataVars, DispatchVars, QueueLogVars, OpVars, CloseVars, nativeWindows >>

\* user code runs on a producer thread, or on the loop thread inside a
\* callback or a listener
CanCall(t) == CanRun(t) \/ (t = Loop /\ lpc = "in_listener" /\ reading[t] = NoRead)

\* winit_application_handle_pop_event on any thread: pop_event under the
\* queue mutex, then the out-parameters and the returned pointer
PopEvent(t) ==
    /\ CanCall(t)
    /\ tpc[t] = "idle"
    /\ LET popped_event == pop_front(events)
       IN  /\ events' = popped_event.rest
           /\ popped' = IF popped_event.some
                        THEN Append(popped, popped_event.value)
                        ELSE popped
           /\ outParams' = out_params(outParams, popped_event)
           /\ popReturn' = IF popped_event.some THEN "event" ELSE "null"
    /\ UNCHANGED << ActionVars, lpc, windowsLock, handles, windowLock,
                    semSignals, dispatched, DataVars, DispatchVars, pushed,
                    OpVars, CloseVars, nativeWindows >>

\* The consumer of the outbound queue: SemaphoreSignaller::signal calls the
\* callback of the user's semaphore, and a consumer thread that waits on it
\* takes one signal and starts to pop
AcquireSemaphore(t) ==
    /\ CanRun(t)
    /\ tpc[t] = "idle"
    /\ acquired < semSignals
    /\ acquired' = acquired + 1
    /\ tpc' = [tpc EXCEPT ![t] = "draining"]
    /\ UNCHANGED << channel, nextId, wakePending, semaphore, createCalls, LoopVars,
                    handles, windowLock, WindowVars >>

\* the consumer calls winit_application_handle_pop_event until it returns
\* null: one pop, after which the consumer goes on if it got an event and
\* back to the semaphore if the queue was empty
DrainPop(t) ==
    /\ reading[t] = NoRead
    /\ tpc[t] = "draining"
    /\ LET popped_event == pop_front(events)
       IN  /\ events' = popped_event.rest
           /\ popped' = IF popped_event.some
                        THEN Append(popped, popped_event.value)
                        ELSE popped
           /\ outParams' = out_params(outParams, popped_event)
           /\ popReturn' = IF popped_event.some THEN "event" ELSE "null"
           /\ tpc' = [tpc EXCEPT ![t] = IF popped_event.some THEN "draining" ELSE "idle"]
    /\ UNCHANGED << channel, nextId, wakePending, cur, windows, nativeCount,
                    wakeSignals, sentAtStart, handled, callbacks, nativeCreated,
                    nativeResizes, ConfigVars, boxes, ffi,
                    lpc, windowsLock, handles, windowLock,
                    semSignals, dispatched, DataVars, DispatchVars, pushed,
                    OpVars, CloseVars, nativeWindows >>

\* the box behind an address that foreign code passes: the null pointer, the
\* address of the application handle or the address of window handle `index`
BoxAt(address, index) ==
    CASE address = "null" -> "null"
      [] address = "application_handle" -> boxes.application_handle
      [] address = "window_handle" -> boxes.window_handle[index]

\* ValueBoxPointer::with_ref_ok on a raw address, what it can find. A null
\* pointer is refused before anything is read. Any other address is read as
\* a ValueBox: one that holds its value gives the reference, one whose value
\* was taken gives NoValue. A released address points to freed memory, and
\* reading it is undefined behaviour: the memory may still look like the box
\* with its value, may look like a box without one, or the read may fault.
with_ref_ok(box) ==
    CASE box = "null" -> {"NullPointer"}
      [] box = "value" -> {"Ok"}
      [] box = "taken" -> {"NoValue"}
      [] box = "released" -> {"Ok", "NoValue", "Fault"}

\* or_log(default): an error is logged and replaced by the default
or_log(found, value, default) ==
    CASE found = "Ok" -> value
      [] found = "Fault" -> "none"
      [] OTHER -> default

\* a foreign entry point is entered with an address and finds `found` there:
\* the call is recorded, and a fault ends the process
ForeignCall(entry, address, index, found, value, default) ==
    /\ ffi' = [entry |-> entry, address |-> address, index |-> index,
               box |-> BoxAt(address, index),
               found |-> found,
               logged |-> found \in {"NullPointer", "NoValue"},
               result |-> or_log(found, value, default)]
    /\ lpc' = IF found = "Fault" THEN "crashed" ELSE lpc
    /\ UNCHANGED << channel, nextId, tpc, cur, windows, windowsLock, handles,
                    windowLock, nativeCount, ConfigVars, semSignals, wakeSignals,
                    dispatched, sentAtStart, handled, callbacks, nativeCreated,
                    nativeResizes, DataVars, DispatchVars, pushed, OpVars,
                    CloseVars, nativeWindows >>

\* the addresses foreign code holds: null, and the addresses it was given
HeldAddress(address, index) ==
    /\ lpc = "waiting"
    /\ (address = "window_handle") = (index # 0)
    /\ BoxAt(address, index) # "none"

\* winit_window_handle_get_id
WinitWindowHandleGetId(address, index) ==
    /\ HeldAddress(address, index)
    /\ \E found \in with_ref_ok(BoxAt(address, index)) :
          ForeignCall("winit_window_handle_get_id", address, index, found, "id", "0")
    /\ UNCHANGED << boxes, wakePending, events, popped, outParams, popReturn >>

\* winit_window_handle_get_scale_factor
WinitWindowHandleGetScaleFactor(address, index) ==
    /\ HeldAddress(address, index)
    /\ \E found \in with_ref_ok(BoxAt(address, index)) :
          ForeignCall("winit_window_handle_get_scale_factor", address, index, found,
                      "scale_factor", "1.0")
    /\ UNCHANGED << boxes, wakePending, events, popped, outParams, popReturn >>

\* winit_application_wake: wake_up on the handle that was found
WinitApplicationWake(address) ==
    /\ HeldAddress(address, 0)
    /\ \E found \in with_ref_ok(BoxAt(address, 0)) :
          /\ ForeignCall("winit_application_wake", address, 0, found, "true", "false")
          /\ wakePending' = IF found = "Ok" THEN wake_up(wakePending) ELSE wakePending
    /\ UNCHANGED << boxes, events, popped, outParams, popReturn >>

\* winit_application_handle_pop_event: pop_event on the handle that was found
WinitApplicationHandlePopEvent(address) ==
    /\ HeldAddress(address, 0)
    /\ \E found \in with_ref_ok(BoxAt(address, 0)) :
          LET popped_event == IF found = "Ok" THEN pop_front(events)
                              ELSE [some |-> FALSE, rest |-> events]
          IN  /\ ForeignCall("winit_application_handle_pop_event", address, 0, found,
                             IF popped_event.some THEN "event" ELSE "null", "null")
              /\ events' = popped_event.rest
              /\ popped' = IF popped_event.some
                           THEN Append(popped, popped_event.value)
                           ELSE popped
              /\ outParams' = out_params(outParams, popped_event)
              /\ popReturn' = CASE found = "Fault" -> popReturn
                                [] popped_event.some -> "event"
                                [] OTHER -> "null"
    /\ UNCHANGED << boxes, wakePending >>

\* winit_window_handle_release and winit_application_handle_release on an
\* address that holds a box: the box is freed
Release(address, index) ==
    /\ HeldAddress(address, index)
    /\ BoxAt(address, index) \in {"value", "taken"}
    /\ ForeignCall(IF address = "window_handle" THEN "winit_window_handle_release"
                   ELSE "winit_application_handle_release",
                   address, index, "Ok", "Unit", "Unit")
    /\ boxes' = IF address = "window_handle"
                THEN [boxes EXCEPT !.window_handle[index] = "released"]
                ELSE [boxes EXCEPT !.application_handle = "released"]
    /\ UNCHANGED << wakePending, events, popped, outParams, popReturn >>

\* the box behind an address of window attributes: the null pointer (0) or
\* one of the boxes made by winit_window_attributes_new
AttributesAt(index) ==
    IF index = 0 THEN "null" ELSE createCalls.window_attributes[index]

\* winit_application_handle_create_window on thread t: with_ref on the
\* application handle, take_value on the window attributes and, if both are
\* there, create_window: the CreateWindow action is sent (enqueue_action,
\* first statement) with a callback that has the out-pointer and the
\* semaphore signaller of this call; errors are logged
WinitApplicationHandleCreateWindow(t, address, index) ==
    /\ CanRun(t)
    /\ tpc[t] = "idle"
    /\ ReceiverAlive
    /\ \E found \in with_ref_ok(BoxAt(address, 0)) :
          LET taken == IF found = "Ok"
                       THEN take_value(AttributesAt(index))
                       ELSE [result |-> found, box |-> AttributesAt(index)]
              enqueued == taken.result = "Ok"
          IN  /\ enqueued => nextId <= MaxActions
              /\ createCalls' =
                    [createCalls EXCEPT
                        !.window_attributes =
                            IF index = 0 THEN @ ELSE [@ EXCEPT ![index] = taken.box],
                        !.enqueued = IF enqueued THEN @ \cup {nextId} ELSE @]
              /\ channel' = IF enqueued
                            THEN send(channel, [id |-> nextId, kind |-> "CreateWindow",
                                                window_id |-> 0])
                            ELSE channel
              /\ nextId' = IF enqueued THEN nextId + 1 ELSE nextId
              /\ tpc' = IF enqueued THEN [tpc EXCEPT ![t] = "sent"] ELSE tpc
              /\ ffi' = [entry |-> "winit_application_handle_create_window",
                         address |-> address, index |-> index,
                         box |-> AttributesAt(index),
                         found |-> taken.result,
                         logged |-> taken.result # "Ok",
                         result |-> "Unit"]
    /\ UNCHANGED << wakePending, semaphore, acquired, handles, windowLock, LoopVars,
                    DataVars, DispatchVars, QueueLogVars, OpVars, CloseVars,
                    boxes, nativeWindows >>

\* the handle the completion callback being run was called with
CallbackHandle == callbacks[Len(callbacks)].handle

\* faulty: the semaphore signaller is signalled before the out-pointer is written
CallbackSignalFirst ==
    /\ lpc = "cw_callback"
    /\ cur.id \in createCalls.enqueued
    /\ createCalls.signalled[cur.id] = 0
    /\ createCalls' = [createCalls EXCEPT !.signalled[cur.id] = @ + 1]
    /\ UNCHANGED << channel, nextId, wakePending, tpc, semaphore, acquired, handles,
                    windowLock, LoopVars, WindowVars >>

\* the callback of winit_application_handle_create_window, first statement:
\* *window_handle = value_box!(window).into_raw()
CallbackWriteHandle ==
    /\ lpc = "cw_callback"
    /\ cur.id \in createCalls.enqueued
    /\ createCalls.window_handle[cur.id] = 0
    /\ createCalls' = [createCalls EXCEPT !.window_handle[cur.id] = CallbackHandle]
    /\ UNCHANGED << channel, nextId, wakePending, tpc, semaphore, acquired, handles,
                    windowLock, LoopVars, WindowVars >>

\* the callback, second statement: semaphore_signaller.with_ref_ok(signal)
CallbackSignal ==
    /\ lpc = "cw_callback"
    /\ cur.id \in createCalls.enqueued
    /\ createCalls.window_handle[cur.id] # 0
    /\ createCalls.signalled[cur.id] = 0
    /\ createCalls' = [createCalls EXCEPT !.signalled[cur.id] = @ + 1]
    /\ UNCHANGED << channel, nextId, wakePending, tpc, semaphore, acquired, handles,
                    windowLock, LoopVars, WindowVars >>

\* the callback returns once its two statements have run
CreatedCallbackReturn ==
    /\ lpc = "cw_callback"
    /\ cur.id \in createCalls.enqueued
    /\ createCalls.window_handle[cur.id] # 0
    /\ createCalls.signalled[cur.id] # 0
    /\ CallbackReturn

\* the number of listeners registered on handle h so far
ListenerCount(h) ==
    Len(data[h].window_resize_listeners) + Len(data[h].window_redraw_listeners)

RECURSIVE SumCounts(_)
SumCounts(hs) ==
    IF hs = {} THEN 0
    ELSE LET h == CHOOSE x \in hs : TRUE
         IN  ListenerCount(h) + SumCounts(hs \ {h})

\* the number of listeners registered so far, on all handles
Registrations == SumCounts(WindowIds)

\* WindowHandle::add_resized_listener on a clone of handle h
AddResizedListener(t, h) ==
    /\ CanCall(t)
    /\ tpc[t] = "idle"
    /\ handles[h] # NoHandle
    /\ dataLock[h] = NoThread
    /\ Registrations < MaxListeners
    /\ data' = [data EXCEPT ![h].window_resize_listeners =
                    push_listener(@, ListenerCount(h) + 1)]
    /\ UNCHANGED << ActionVars, lpc, windowsLock, handles, windowLock, events,
                    semSignals, dispatched, dataLock, DispatchVars,
                    QueueLogVars, OpVars, CloseVars, nativeWindows >>

\* WindowHandle::add_redraw_listener on a clone of handle h
AddRedrawListener(t, h) ==
    /\ CanCall(t)
    /\ tpc[t] = "idle"
    /\ handles[h] # NoHandle
    /\ dataLock[h] = NoThread
    /\ Registrations < MaxListeners
    /\ data' = [data EXCEPT ![h].window_redraw_listeners =
                    push_listener(@, ListenerCount(h) + 1)]
    /\ UNCHANGED << ActionVars, lpc, windowsLock, handles, windowLock, events,
                    semSignals, dispatched, dataLock, DispatchVars,
                    QueueLogVars, OpVars, CloseVars, nativeWindows >>

\* WindowHandle::on_window_moved called on a clone of handle h: the data is
\* locked and the position stored
OnWindowMoved(t, h, position) ==
    /\ CanCall(t)
    /\ tpc[t] = "idle"
    /\ handles[h] # NoHandle
    /\ dataLock[h] = NoThread
    /\ data' = [data EXCEPT ![h] = on_window_moved(@, position)]
    /\ UNCHANGED << ActionVars, lpc, windowsLock, handles, windowLock, events,
                    semSignals, dispatched, dataLock, DispatchVars,
                    QueueLogVars, OpVars, CloseVars, nativeWindows >>

GeometryFields == {"surface_size", "outer_position", "scale_factor"}

\* surface_size, scale_factor or outer_position is called on a clone of
\* handle h: the thread goes for the data mutex
GetGeometry(t, h, field) ==
    /\ CanCall(t)
    /\ tpc[t] = "idle"
    /\ handles[h] # NoHandle
    /\ reading' = [reading EXCEPT ![t] = [handle |-> h, field |-> field]]
    /\ UNCHANGED << ActionVars, lpc, windowsLock, handles, windowLock, events,
                    semSignals, dispatched, DataVars, DispatchVars,
                    QueueLogVars, opResult, CloseVars, nativeWindows >>

\* the getter got the data mutex: it returns a copy of the cached field
GetGeometryReturn(t) ==
    /\ reading[t] # NoRead
    /\ dataLock[reading[t].handle] = NoThread
    /\ opResult' = [op |-> reading[t].field, handle |-> reading[t].handle,
                    open |-> handles[reading[t].handle].window,
                    native |-> FALSE,
                    result |-> data[reading[t].handle][reading[t].field]]
    /\ reading' = [reading EXCEPT ![t] = NoRead]
    /\ UNCHANGED << ActionVars, lpc, windowsLock, handles, windowLock, events,
                    semSignals, dispatched, DataVars, DispatchVars,
                    QueueLogVars, CloseVars, nativeWindows >>

\* faulty: the native method is called whether or not the window is there
with_window_unchecked(window) == TRUE
\* if let Some(window) = self.window.lock().as_ref() { window.<method>() }:
\* the native method is called exactly when the native window is there
with_window(window) == window

\* what the native window answers to current_monitor()
NativeMonitors == {"Some", "None"}
\* what the native window answers to window_handle() / display_handle()
NativeHandles == {"Ok", "HandleError"}

\* WindowHandle::current_monitor: as_ref().and_then(current_monitor), which
\* is None when the native window was taken
current_monitor(window, native) == IF window THEN native ELSE "None"

\* WindowHandle::raw_window_handle and raw_display_handle:
\* ok_or_else(|| anyhow!("Window is closed")) and then the native answer
raw_handle(window, native) == IF window THEN native ELSE "WindowIsClosed"

MutationOps == {"set_outer_position", "set_cursor", "focus_window"}

\* set_outer_position, set_cursor or focus_window on a clone of handle h: the
\* window mutex is held around the native call; the method returns nothing
Mutate(t, h, op) ==
    /\ CanCall(t)
    /\ tpc[t] = "idle"
    /\ handles[h] # NoHandle
    /\ windowLock[h] = NoThread
    /\ opResult' = [op |-> op, handle |-> h, open |-> handles[h].window,
                    native |-> with_window(handles[h].window),
                    result |-> "Unit"]
    /\ UNCHANGED << ActionVars, lpc, windowsLock, handles, windowLock, events,
                    semSignals, dispatched, DataVars, DispatchVars,
                    QueueLogVars, reading, CloseVars, nativeWindows >>

SetOuterPosition(t, h) == Mutate(t, h, "set_outer_position")
SetCursor(t, h) == Mutate(t, h, "set_cursor")
FocusWindow(t, h) == Mutate(t, h, "focus_window")

\* WindowHandle::current_monitor on a clone of handle h
CurrentMonitor(t, h) ==
    /\ CanCall(t)
    /\ tpc[t] = "idle"
    /\ handles[h] # NoHandle
    /\ windowLock[h] = NoThread
    /\ \E native \in NativeMonitors :
          opResult' = [op |-> "current_monitor", handle |-> h,
                       open |-> handles[h].window,
                       native |-> with_window(handles[h].window),
                       result |-> current_monitor(handles[h].window, native)]
    /\ UNCHANGED << ActionVars, lpc, windowsLock, handles, windowLock, events,
                    semSignals, dispatched, DataVars, DispatchVars,
                    QueueLogVars, reading, CloseVars, nativeWindows >>

RawHandleOps == {"raw_window_handle", "raw_display_handle"}

\* WindowHandle::raw_window_handle or raw_display_handle on a clone of handle h
RawHandle(t, h, op) ==
    /\ CanCall(t)
    /\ tpc[t] = "idle"
    /\ handles[h] # NoHandle
    /\ windowLock[h] = NoThread
    /\ \E native \in NativeHandles :
          opResult' = [op |-> op, handle |-> h, open |-> handles[h].window,
                       native |-> with_window(handles[h].window),
                       result |-> raw_handle(handles[h].window, native)]
    /\ UNCHANGED << ActionVars, lpc, windowsLock, handles, windowLock, events,
                    semSignals, dispatched, DataVars, DispatchVars,
                    QueueLogVars, reading, CloseVars, nativeWindows >>

RawWindowHandle(t, h) == RawHandle(t, h, "raw_window_handle")
RawDisplayHandle(t, h) == RawHandle(t, h, "raw_display_handle")

\* The state the main specification is in once a producer has created n
\* windows one after the other and the loop thread is back in the native
\* event loop: each CreateWindow action was sent, woke the loop, was handled
\* by HandleCreateWindowOk and its completion callback returned.
WindowsCreated(n) ==
    /\ channel = << >>
    /\ nextId = n + 1
    /\ wakePending = FALSE
    /\ tpc = [t \in Threads |-> "idle"]
    /\ lpc = "waiting"
    /\ cur = [id |-> n, kind |-> "CreateWindow", window_id |-> 0]
    /\ windows = [w \in WindowIds |-> IF w <= n THEN w ELSE 0]
    /\ windowsLock = NoThread
    /\ handles = [w \in WindowIds |-> IF w <= n THEN for_window(w) ELSE NoHandle]
    /\ windowLock = [w \in WindowIds |-> NoThread]
    /\ nativeCount = n
    /\ events = << >>
    /\ semaphore \in BOOLEAN
    /\ acquired = 0
    /\ createCalls = NoCreateCalls
    /\ semSignals = 0
    /\ wakeSignals = [i \in 1..NumWakeSignallers |-> 1]
    /\ dispatched = 0
    /\ sentAtStart = n
    /\ handled = [i \in 1..n |-> [id |-> i, thread |-> Loop]]
    /\ callbacks = [i \in 1..n |-> [action |-> i, thread |-> Loop,
                                    handle |-> i, handle_id |-> i]]
    /\ nativeCreated = [i \in 1..n |-> [action |-> i, id |-> i]]
    /\ nativeResizes = << >>
    /\ data = [w \in WindowIds |-> IF w <= n THEN window_data(NativeGeometry) ELSE NoData]
    /\ dataLock = [w \in WindowIds |-> NoThread]
    /\ ev = NoEvent
    /\ li = 1
    /\ batch = << >>
    /\ invocations = << >>
    /\ reading = [t \in Threads |-> NoRead]
    /\ pushed = << >>
    /\ popped = << >>
    /\ outParams = NoParams
    /\ popReturn = "none"
    /\ opResult = NoResult
    /\ atClose = [w \in WindowIds |-> NoData]
    /\ drops = [w \in WindowIds |-> 0]
    /\ boxes = [application |-> "taken", application_handle |-> "value",
                window_handle |-> [w \in WindowIds |->
                                      IF w <= n THEN "value" ELSE "none"]]
    /\ ffi = NoCall
    /\ nativeWindows = [w \in WindowIds |-> IF w <= n THEN native_window(NativeGeometry)
                                     ELSE NoNative]

WindowsInit == \E n \in 1..MaxWindows : WindowsCreated(n)

\* The outbound event queue: native window events are converted and pushed
\* on the loop thread while consumers pop. No listener is registered, so the
\* for loops of on_window_resized and on_window_redraw have nothing to visit.
EventNext ==
    \/ \E wid \in WindowIds, event \in NativeEvents : DispatchResized(wid, event)
    \/ \E wid \in WindowIds, event \in NativeEvents : DispatchRedraw(wid, event)
    \/ \E wid \in WindowIds, event \in NativeEvents : DispatchOther(wid, event)
    \/ ListenersDone
    \/ EnqueueEvent
    \/ EnqueueEventUnknown
    \/ PushEvent
    \/ EnqueueEventEnd
    \/ \E t \in Producers : PopEvent(t)

EventSpec == WindowsInit /\ [][EventNext]_vars

\* Listeners: user code registers resize and redraw listeners, the loop
\* thread calls them while it dispatches native events, and a listener may
\* read the cached surface size of a handle before it returns.
ListenerNext ==
    \/ \E wid \in WindowIds, event \in ListenerEvents : DispatchResized(wid, event)
    \/ \E wid \in WindowIds, event \in ListenerEvents : DispatchRedraw(wid, event)
    \/ \E wid \in WindowIds, event \in ListenerEvents : DispatchOther(wid, event)
    \/ InvokeListener
    \/ ListenerReturn
    \/ ListenersDone
    \/ EnqueueEvent
    \/ EnqueueEventUnknown
    \/ PushEvent
    \/ EnqueueEventEnd
    \/ \E t \in Producers, h \in WindowIds : AddResizedListener(t, h)
    \/ \E t \in Producers, h \in WindowIds : AddRedrawListener(t, h)
    \/ \E h \in WindowIds : GetGeometry(Loop, h, "surface_size")
    \/ GetGeometryReturn(Loop)

ListenerSpec == WindowsInit /\ [][ListenerNext]_vars

\* Closed handles: the clones of the handles are closed and read from the
\* producer threads while the native layer keeps reporting sizes for the
\* same window ids.
GeometryNext ==
    \/ \E t \in Producers, h \in WindowIds : CloseWindowObserved(t, h)
    \/ \E h \in WindowIds, field \in GeometryFields : GetGeometry("p1", h, field)
    \/ GetGeometryReturn("p1")
    \/ \E wid \in WindowIds, event \in ResizeEvents : WindowEvent(wid, event)
    \/ \E wid \in WindowIds, event \in ResizeEvents : WindowEventUnknown(wid, event)

GeometrySpec == WindowsInit /\ [][GeometryNext]_vars

\* Handle operations: the clones of the handles are used and closed from the
\* producer threads while resize requests for the same windows go through
\* the action queue.
HandleNext ==
    \/ \E t \in Producers, wid \in WindowIds : RequestSurfaceSize(t, wid)
    \/ \E t \in Producers : EnqueueWake(t)
    \/ \E t \in Producers, h \in WindowIds : CloseWindowObserved(t, h)
    \/ ProxyWakeUpBegin
    \/ DrainEmpty
    \/ SignalWakeup
    \/ HandleResizeOpen
    \/ HandleResizeNative
    \/ HandleResizeDropped
    \/ \E t \in Producers, h \in WindowIds : SetOuterPosition(t, h)
    \/ \E t \in Producers, h \in WindowIds : SetCursor(t, h)
    \/ \E t \in Producers, h \in WindowIds : FocusWindow(t, h)
    \/ \E t \in Producers, h \in WindowIds : CurrentMonitor(t, h)
    \/ \E t \in Producers, h \in WindowIds : RawWindowHandle(t, h)
    \/ \E t \in Producers, h \in WindowIds : RawDisplayHandle(t, h)

HandleSpec == WindowsInit /\ [][HandleNext]_vars

\* The state after ApplicationBuilder::build: the Application is boxed and
\* was not run yet, nothing was sent
LifecycleInit ==
    /\ channel = << >>
    /\ nextId = 1
    /\ wakePending = FALSE
    /\ tpc = [t \in Threads |-> "idle"]
    /\ lpc = "idle"
    /\ cur = NoAction
    /\ windows = [w \in WindowIds |-> 0]
    /\ windowsLock = NoThread
    /\ handles = [w \in WindowIds |-> NoHandle]
    /\ windowLock = [w \in WindowIds |-> NoThread]
    /\ nativeCount = 0
    /\ events = << >>
    /\ semaphore = TRUE
    /\ acquired = 0
    /\ createCalls = NoCreateCalls
    /\ semSignals = 0
    /\ wakeSignals = [i \in 1..NumWakeSignallers |-> 0]
    /\ dispatched = 0
    /\ sentAtStart = 0
    /\ handled = << >>
    /\ callbacks = << >>
    /\ nativeCreated = << >>
    /\ nativeResizes = << >>
    /\ data = [w \in WindowIds |-> NoData]
    /\ dataLock = [w \in WindowIds |-> NoThread]
    /\ ev = NoEvent
    /\ li = 1
    /\ batch = << >>
    /\ invocations = << >>
    /\ reading = [t \in Threads |-> NoRead]
    /\ pushed = << >>
    /\ popped = << >>
    /\ outParams = NoParams
    /\ popReturn = "none"
    /\ opResult = NoResult
    /\ atClose = [w \in WindowIds |-> NoData]
    /\ drops = [w \in WindowIds |-> 0]
    /\ boxes = [NoBoxes EXCEPT !.application = "value",
                               !.application_handle = "value"]
    /\ ffi = NoCall
    /\ nativeWindows = [w \in WindowIds |-> NoNative]

\* The life of the application: it is run, actions are enqueued before,
\* while and after the loop runs, native events arrive for the ids that are
\* registered and for ids that are not, user callbacks may panic, and the
\* native layer may leave the loop.
LifecycleNext ==
    \/ \E t \in Threads : WinitApplicationRun(t)
    \/ LoopExit
    \/ CallbackPanic
    \/ \E t \in Threads : EnqueueFunctionCall(t)
    \/ \E t \in Threads : CreateWindow(t)
    \/ \E t \in Threads, wid \in WindowIds : RequestSurfaceSize(t, wid)
    \/ \E t \in Threads : EnqueueWake(t)
    \/ \E t \in Threads, h \in WindowIds : CloseWindow(t, h)
    \/ ProxyWakeUpBegin
    \/ DrainEmpty
    \/ SignalWakeup
    \/ HandleFunctionCall
    \/ HandleCreateWindowOk
    \/ HandleCreateWindowErr
    \/ CallbackReturn
    \/ HandleResizeOpen
    \/ HandleResizeNative
    \/ HandleResizeDropped
    \/ \E wid \in WindowIds, event \in ResizeEvents : WindowEvent(wid, event)
    \/ \E wid \in WindowIds, event \in ResizeEvents : WindowEventUnknown(wid, event)

LifecycleSpec == LifecycleInit /\ [][LifecycleNext]_vars

\* The event converter: every native event of ConverterEvents is dispatched
\* for the windows that exist and for ids that are not registered, the event
\* that was dispatched being kept next to what was pushed for it.
ConverterKeys == {NamedKey("Home"), CharacterKey("7"), DeadKey}
\* the keys of a keyboard event: the two differ, so that the key an event
\* reports tells which of the two was chosen
KeyPairs ==
    { keys \in ConverterKeys \X ConverterKeys : keys[1] # keys[2] }
KeyboardEvents ==
    { KeyboardInput(state, location, keys[1], keys[2], text, FALSE) :
        state \in {"Pressed", "Released"},
        location \in KeyLocations,
        keys \in KeyPairs,
        text \in {NoText, SomeText("7")} }
ImeEvents ==
    { [kind |-> "Ime", ime |-> "Commit", string |-> "e"],
      [kind |-> "Ime", ime |-> "Enabled", string |-> ""] }
WheelEvents ==
    { [kind |-> "MouseWheel", delta |-> [form |-> form, x |-> x, y |-> y], phase |-> phase] :
        form \in {"LineDelta", "PixelDelta"},
        x \in {-2, 0, 1},
        y \in {-1, 2},
        phase \in {"Moved"} }
ConverterEvents == KeyboardEvents \cup ImeEvents \cup WheelEvents

ConverterNext ==
    \/ \E wid \in WindowIds, event \in ConverterEvents :
            WindowEventObserved(MaxEvents, wid, event)
    \/ \E wid \in WindowIds, event \in ConverterEvents : WindowEventUnknown(wid, event)

ConverterSpec == WindowsInit /\ [][ConverterNext]_vars

\* Changes of the scale factor: the native layer reports new scale factors
\* and new surface sizes for the windows that exist, MaxScaleEvents times.
ScaleEvents ==
    { [kind |-> "ScaleFactorChanged", scale_factor |-> 1],
      [kind |-> "ScaleFactorChanged", scale_factor |-> 2],
      [kind |-> "SurfaceResized", width |-> 800, height |-> 600],
      [kind |-> "SurfaceResized", width |-> 1280, height |-> 960] }

ScaleNext ==
    \E wid \in WindowIds, event \in ScaleEvents :
        WindowEventObserved(MaxScaleEvents, wid, event)

ScaleSpec == WindowsInit /\ [][ScaleNext]_vars

\* Sizes with no, one and two zero dimensions are reported for the windows
\* that exist, step by step, while resize listeners are registered.
ReportedSizes ==
    { [kind |-> "SurfaceResized", width |-> width, height |-> height] :
        width \in {0, 800}, height \in {0, 600} }

SuppressionNext ==
    \/ \E wid \in WindowIds, event \in ReportedSizes : DispatchResized(wid, event)
    \/ InvokeListener
    \/ ListenerReturn
    \/ ListenersDone
    \/ EnqueueEvent
    \/ PushEvent
    \/ EnqueueEventEnd
    \/ \E t \in Producers, h \in WindowIds : AddResizedListener(t, h)

SuppressionSpec == WindowsInit /\ [][SuppressionNext]_vars

\* The foreign boundary: foreign code calls entry points with the null
\* pointer and with the addresses it was given, releases addresses and keeps
\* using them, while native events fill the outbound queue.
WindowAddresses ==
    { [address |-> "null", index |-> 0] }
        \cup { [address |-> "window_handle", index |-> w] : w \in WindowIds }
ApplicationAddresses == {"null", "application_handle"}

BoundaryNext ==
    \/ \E a \in WindowAddresses : WinitWindowHandleGetId(a.address, a.index)
    \/ \E a \in WindowAddresses : WinitWindowHandleGetScaleFactor(a.address, a.index)
    \/ \E address \in ApplicationAddresses : WinitApplicationWake(address)
    \/ \E address \in ApplicationAddresses : WinitApplicationHandlePopEvent(address)
    \/ \E a \in WindowAddresses \cup {[address |-> "application_handle", index |-> 0]} :
            Release(a.address, a.index)
    \/ \E wid \in WindowIds, event \in ResizeEvents : WindowEvent(wid, event)

BoundarySpec == WindowsInit /\ [][BoundaryNext]_vars

\* The registry during the dispatch: native events that go through the
\* resize listeners, through the redraw listeners and straight to
\* enqueue_event are dispatched step by step to the windows that exist and
\* to window ids that were never registered, while the clones of the handles
\* are closed from a producer thread.
MovedEvent == [kind |-> "Moved", x |-> 30, y |-> 40]
RegistryEvents ==
    { [kind |-> "RedrawRequested"],
      [kind |-> "SurfaceResized", width |-> 800, height |-> 600],
      MovedEvent }

RegistryNext ==
    \/ \E wid \in WindowIds, event \in RegistryEvents : DispatchResized(wid, event)
    \/ \E wid \in WindowIds, event \in RegistryEvents : DispatchRedraw(wid, event)
    \/ \E wid \in WindowIds, event \in RegistryEvents : DispatchOther(wid, event)
    \/ ListenersDone
    \/ EnqueueEvent
    \/ EnqueueEventUnknown
    \/ PushEvent
    \/ EnqueueEventEnd
    \/ \E h \in WindowIds : CloseWindowObserved("p1", h)

RegistrySpec == WindowsInit /\ [][RegistryNext]_vars

\* The three arms of the match of window_event with listeners: resize and
\* redraw listeners are registered from a producer thread while native
\* events of the three kinds are dispatched step by step to the windows that
\* exist and to window ids that were never registered.
DispatchNext ==
    \/ \E wid \in WindowIds, event \in RegistryEvents : DispatchResized(wid, event)
    \/ \E wid \in WindowIds, event \in RegistryEvents : DispatchRedraw(wid, event)
    \/ \E wid \in WindowIds, event \in RegistryEvents : DispatchOther(wid, event)
    \/ InvokeListener
    \/ ListenerReturn
    \/ ListenersDone
    \/ EnqueueEvent
    \/ EnqueueEventUnknown
    \/ PushEvent
    \/ EnqueueEventEnd
    \/ \E h \in WindowIds : AddResizedListener("p1", h)
    \/ \E h \in WindowIds : AddRedrawListener("p1", h)

DispatchSpec == WindowsInit /\ [][DispatchNext]_vars

\* The cached geometry: the native layer reports moves, changes of the scale
\* factor and sizes with no, one and two zero dimensions for the windows
\* that exist, and a producer thread calls on_window_moved on the handles.
CacheEvents ==
    { MovedEvent,
      [kind |-> "ScaleFactorChanged", scale_factor |-> 2],
      [kind |-> "SurfaceResized", width |-> 0, height |-> 0],
      [kind |-> "SurfaceResized", width |-> 0, height |-> 600],
      [kind |-> "SurfaceResized", width |-> 800, height |-> 600] }
MovedPositions == { [x |-> 50, y |-> 60] }

CacheNext ==
    \/ \E wid \in WindowIds, event \in CacheEvents :
            WindowEventObserved(MaxDispatch, wid, event)
    \/ \E h \in WindowIds, position \in MovedPositions : OnWindowMoved("p1", h, position)

CacheSpec == WindowsInit /\ [][CacheNext]_vars

\* Windows created through the foreign entry point: a producer thread calls
\* winit_application_handle_create_window with a null or a valid address of
\* the application handle and with null, fresh or used boxes of window
\* attributes, and the loop thread handles the actions; the native creation
\* succeeds or fails.
CreateNext ==
    \/ \E address \in ApplicationAddresses, index \in {0} \cup ActionIds :
            WinitApplicationHandleCreateWindow("p1", address, index)
    \/ EnqueueWake("p1")
    \/ ProxyWakeUpBegin
    \/ DrainEmpty
    \/ SignalWakeup
    \/ HandleCreateWindowOk
    \/ HandleCreateWindowErr
    \/ CallbackWriteHandle
    \/ CallbackSignal
    \/ CreatedCallbackReturn

CreateSpec == Init /\ [][CreateNext]_vars

\* The mutexes, all on the first window: the loop thread drains resize
\* requests (registry, then the window mutex) and dispatches size reports to
\* listeners that only return (registry, then the data mutex; registry, then
\* the queue mutex) while producer threads enqueue resize requests, close
\* the handle, register listeners, set the cursor, read the cached size and
\* pop events.
LockEvent == [kind |-> "SurfaceResized", width |-> 800, height |-> 600]

DispatchStep ==
    \/ InvokeListener
    \/ ListenerReturn
    \/ ListenersDone
    \/ EnqueueEvent
    \/ PushEvent
    \/ EnqueueEventEnd

DrainStep ==
    \/ ProxyWakeUpBegin
    \/ DrainEmpty
    \/ SignalWakeup
    \/ HandleResizeOpen
    \/ HandleResizeNative
    \/ HandleResizeDropped

LockNext ==
    \/ DispatchResized(1, LockEvent)
    \/ DispatchStep
    \/ DrainStep
    \/ RequestSurfaceSize("p1", 1)
    \/ EnqueueWake("p1")
    \/ CloseWindow("p1", 1)
    \/ AddResizedListener("p1", 1)
    \/ SetCursor("p1", 1)
    \/ GetGeometry("p2", 1, "surface_size")
    \/ GetGeometryReturn("p2")
    \/ PopEvent("p2")

LockSpec == WindowsInit /\ [][LockNext]_vars

\* The outbound queue with a consumer that follows the semaphore: native
\* events are converted and pushed step by step while a consumer thread
\* takes a signal of the semaphore, pops until the queue reports empty and
\* goes back to wait.
EnqueueStep ==
    \/ ListenersDone
    \/ EnqueueEvent
    \/ EnqueueEventUnknown
    \/ PushEvent
    \/ EnqueueEventEnd

ConsumerNext ==
    \/ \E wid \in WindowIds, event \in NativeEvents : DispatchResized(wid, event)
    \/ \E wid \in WindowIds, event \in NativeEvents : DispatchRedraw(wid, event)
    \/ \E wid \in WindowIds, event \in NativeEvents : DispatchOther(wid, event)
    \/ EnqueueStep
    \/ AcquireSemaphore("p1")
    \/ DrainPop("p1")

\* The scheduling: the loop thread runs a handler it has entered to its end,
\* and the consumer thread keeps running (a signal that is available is
\* taken, a drain that was started goes on until the queue is empty).
ConsumerSpec ==
    /\ WindowsInit
    /\ [][ConsumerNext]_vars
    /\ WF_vars(EnqueueStep)
    /\ WF_vars(AcquireSemaphore("p1"))
    /\ WF_vars(DrainPop("p1"))

\* --------------------------------------------------------------------------
\* Claims
\* --------------------------------------------------------------------------

\* C1: the loop thread handles the actions in exactly the order in which
\* their sends into the channel succeeded. An action's id is the sequence
\* number of its send, so the k-th handle_action invocation must be for the
\* action with id k: no action is handled before one that was sent earlier.
C1_HandledInSendOrder ==
    \A i \in 1..Len(handled) : handled[i].id = i

\* C1 witness: both producer threads have completed a send (neither has
\* reached its wake_up yet) and both actions have already been handled.
C1_Witness ==
    /\ tpc["p1"] = "sent"
    /\ tpc["p2"] = "sent"
    /\ Len(handled) = 2

\* C2: every enqueued action is handled at most once, handle_action and the
\* CreateWindow completion callbacks run on the loop thread only, and the
\* send of enqueue_action handles nothing and runs no callback itself.
C2_HandledAtMostOnceOnLoop ==
    /\ [](/\ \A i, j \in 1..Len(handled) :
                handled[i].id = handled[j].id => i = j
          /\ \A i \in 1..Len(handled) : handled[i].thread = Loop
          /\ \A i \in 1..Len(callbacks) : callbacks[i].thread = Loop)
    /\ [][nextId' # nextId =>
            /\ handled' = handled
            /\ callbacks' = callbacks
            /\ lpc' = lpc]_vars

\* C2 witness: two actions were handled, one of them a CreateWindow whose
\* completion callback ran, and the channel is empty again.
C2_Witness ==
    /\ Len(handled) = 2
    /\ Len(callbacks) = 1
    /\ channel = << >>
    /\ lpc = "waiting"

\* C3: when proxy_wake_up has returned, every action whose send completed
\* before that invocation started has been handled and none of them is left
\* in the channel; a native window event is only dispatched in such a state.
C3_DrainedBeforeReturn ==
    /\ [](lpc = "waiting" =>
            /\ \A a \in 1..sentAtStart : a \in HandledIds
            /\ \A i \in 1..Len(channel) : channel[i].id > sentAtStart)
    /\ [][dispatched' # dispatched =>
            \A a \in 1..sentAtStart : a \in HandledIds]_vars

\* C3 witness: a wake-up that was entered with two sends completed has
\* returned, and a native window event was dispatched after it.
C3_Witness ==
    /\ lpc = "waiting"
    /\ sentAtStart = 2
    /\ dispatched = 1

\* C4: under FairSpec every action that was successfully sent is eventually
\* handled, and nothing but the drain ever takes an action out of the channel
\* (an enqueued action cannot be cancelled).
C4_EventuallyHandled ==
    /\ \A a \in ActionIds : (nextId > a) ~> (a \in HandledIds)
    /\ [][\A i \in 1..Len(channel) :
            \/ \E j \in 1..Len(channel') : channel'[j] = channel[i]
            \/ /\ cur' = channel[i]
               /\ channel[i].id \in { handled'[k].id : k \in 1..Len(handled') }]_vars

\* C4 witness: an enqueued FunctionCall is running on the loop thread.
C4_Witness ==
    /\ lpc = "fn_callback"
    /\ cur.kind = "FunctionCall"
    /\ cur.id \in HandledIds

\* C5: for every delivered proxy wake-up each registered wake-up signaller is
\* signalled exactly once, and only after the drain: none is signalled while
\* the invocation is still draining or handling, each has been signalled
\* exactly once when the invocation returns, and the steps of an invocation
\* that finds the channel empty (entry, the failed try_recv, signal_wakeup)
\* handle no action and leave the window registry, the window handles and
\* the outbound event queue unchanged.
C5_WakeupSignalledOncePerDelivery ==
    /\ [](lpc # "waiting" => \A i \in DOMAIN wakeSignals : wakeSignals[i] = 0)
    /\ [][(lpc # "waiting" /\ lpc' = "waiting") =>
            /\ \A i \in DOMAIN wakeSignals : wakeSignals'[i] = 1
            /\ handled' = handled]_vars
    /\ [][(\/ lpc = "waiting" /\ lpc' = "drain"
           \/ lpc = "drain" /\ lpc' = "signal"
           \/ lpc = "signal" /\ lpc' = "waiting") =>
            /\ handled' = handled
            /\ windows' = windows
            /\ handles' = handles
            /\ events' = events
            /\ channel' = channel]_vars

\* C5 witness: a wake_up() with nothing ever enqueued was delivered and has
\* returned: no action handled, every signaller signalled once.
C5_Witness ==
    /\ lpc = "waiting"
    /\ nextId = 1
    /\ handled = << >>
    /\ NumWakeSignallers >= 2
    /\ \A i \in DOMAIN wakeSignals : wakeSignals[i] = 1

\* C6 as stated: every CreateWindow action that is handled has its completion
\* callback invoked exactly once, whatever the native layer answered.
C6_Original ==
    [][(handled' # handled /\ cur'.kind = "CreateWindow") =>
        Cardinality({ i \in 1..Len(callbacks') : callbacks'[i].action = cur'.id }) = 1]_vars

\* C6 amended: for every CreateWindow action whose native creation succeeded
\* the completion callback has been invoked exactly once, on the loop thread,
\* with a handle whose id is the id of the window the native layer returned;
\* a callback is invoked for no other action (not when the creation failed),
\* and never twice for the same action.
C6_CallbackOncePerCreatedWindow ==
    /\ \A n \in 1..Len(nativeCreated) :
          /\ Cardinality({ i \in 1..Len(callbacks) :
                            callbacks[i].action = nativeCreated[n].action }) = 1
          /\ \A i \in 1..Len(callbacks) :
                callbacks[i].action = nativeCreated[n].action =>
                   /\ callbacks[i].thread = Loop
                   /\ callbacks[i].handle_id = nativeCreated[n].id
                   /\ handles[callbacks[i].handle].id = nativeCreated[n].id
    /\ \A i \in 1..Len(callbacks) :
          /\ \E n \in 1..Len(nativeCreated) :
                nativeCreated[n].action = callbacks[i].action
          /\ callbacks[i].action \in HandledIds
    /\ \A i, j \in 1..Len(callbacks) :
          callbacks[i].action = callbacks[j].action => i = j

\* C6 witness: two CreateWindow actions were handled, the native creation
\* succeeded for one (its callback ran) and failed for the other.
C6_Witness ==
    /\ Len(handled) = 2
    /\ Len(callbacks) = 1
    /\ Len(nativeCreated) = 1
    /\ nativeResizes = << >>
    /\ nextId = 3
    /\ lpc = "drain"
    /\ cur.kind = "CreateWindow"
    /\ callbacks[1].action # cur.id

\* C7: at the moment a CreateWindow completion callback starts running the
\* native window exists (the handle still owns it), the handle is in the
\* registry under its id, and the loop thread does not hold the registry
\* mutex.
C7_RegisteredWhenCallbackStarts ==
    [][(lpc # "cw_callback" /\ lpc' = "cw_callback") =>
        LET c == callbacks'[Len(callbacks')]
        IN  /\ Len(callbacks') = Len(callbacks) + 1
            /\ handles'[c.handle] # NoHandle
            /\ handles'[c.handle].window
            /\ c.handle_id \in DOMAIN windows'
            /\ windows'[c.handle_id] = c.handle
            /\ windowsLock' = NoThread
            /\ windowLock'[c.handle] = NoThread]_vars

\* C7 witness: the loop thread is inside a completion callback and has
\* enqueued an action from it (send done, wake_up not yet called).
C7_Witness ==
    /\ lpc = "cw_callback"
    /\ tpc[Loop] = "sent"

RegisteredIds == { w \in DOMAIN windows : windows[w] # 0 }

\* C8: in every reachable state the registry has exactly one entry per
\* window the native layer has returned so far: as many entries as
\* successful creations, each native id registered, each to its own handle.
C8_RegistryMatchesCreations ==
    /\ Cardinality(RegisteredIds) = Len(nativeCreated)
    /\ RegisteredIds = { nativeCreated[n].id : n \in 1..Len(nativeCreated) }
    /\ \A v, w \in RegisteredIds : windows[v] = windows[w] => v = w
    /\ \A n, m \in 1..Len(nativeCreated) :
          nativeCreated[n].id = nativeCreated[m].id => n = m

\* C8 witness: both producers sent a CreateWindow action concurrently (neither
\* has reached its wake_up), both were drained and both creations succeeded.
C8_Witness ==
    /\ tpc["p1"] = "sent"
    /\ tpc["p2"] = "sent"
    /\ Len(nativeCreated) = 2
    /\ channel = << >>
    /\ lpc = "waiting"

\* C9: when a RequestWindowSurfaceSize action is handled the native resize
\* is requested if and only if the window id is registered and the native
\* object has not been taken at that moment; otherwise the action is dropped
\* and the loop goes on draining. The native resize is never made on a window
\* whose native object was taken: from the check to the native call the loop
\* thread holds the window mutex and the window stays open.
C9_ResizeOnlyOnOpenWindow ==
    /\ [][(handled' # handled /\ cur'.kind = "RequestWindowSurfaceSize") =>
            LET wid == cur'.window_id
                open == /\ wid \in DOMAIN windows
                        /\ windows[wid] # 0
                        /\ handles[windows[wid]].window
            IN  /\ open => lpc' = "resize_native"
                /\ ~open => /\ lpc' = "drain"
                            /\ nativeResizes' = nativeResizes
                            /\ handles' = handles
                            /\ windows' = windows]_vars
    /\ [][lpc = "resize_native" =>
            \/ lpc' = "resize_native"
            \/ /\ Len(nativeResizes') = Len(nativeResizes) + 1
               /\ nativeResizes'[Len(nativeResizes')].action = cur.id]_vars
    /\ [](lpc = "resize_native" =>
            /\ handles[windows[cur.window_id]].window
            /\ windowLock[windows[cur.window_id]] = Loop)
    /\ [](\A i \in 1..Len(nativeResizes) : nativeResizes[i].open)

\* C9 witness: a window was created, a resize for it reached the native
\* layer, and the window was closed afterwards.
C9_Witness ==
    /\ Len(nativeResizes) = 1
    /\ nativeResizes[1].open
    /\ ~handles[windows[nativeResizes[1].window_id]].window

SilentEvents ==
    { [kind |-> "RedrawRequested"],
      [kind |-> "PointerEntered"],
      [kind |-> "SurfaceResized", width |-> 0, height |-> 0] }

\* C10: a native window event dispatched for a registered window signals the
\* configured semaphore exactly once if the conversion produced one or more
\* normalized events and not at all if it produced none, whatever the size of
\* the batch: once for the two events of a key press with text, never for
\* RedrawRequested, a 0x0 resize or PointerEntered. Without a configured
\* semaphore nothing is signalled.
C10_OneSemaphoreSignalPerBatch ==
    /\ [][dispatched' # dispatched =>
            semSignals' - semSignals =
                IF semaphore /\ Len(events') > Len(events) THEN 1 ELSE 0]_vars
    /\ [][\A wid \in WindowIds, event \in NativeEvents :
            WindowEvent(wid, event) =>
                /\ Len(events') - Len(events) = Len(convert_event(event, data[windows[wid]]))
                /\ semSignals' - semSignals =
                      IF semaphore /\ Len(convert_event(event, data[windows[wid]])) >= 1
                      THEN 1 ELSE 0]_vars
    /\ [][\A wid \in WindowIds :
            WindowEvent(wid, KeyPressWithText) =>
                /\ Len(events') = Len(events) + 2
                /\ semSignals' = semSignals + (IF semaphore THEN 1 ELSE 0)]_vars
    /\ [][\A wid \in WindowIds, event \in SilentEvents :
            WindowEvent(wid, event) =>
                /\ events' = events
                /\ semSignals' = semSignals]_vars

\* C10 witness: with a semaphore configured, a key press with text put two
\* normalized events into the outbound queue and signalled once.
C10_Witness ==
    /\ semaphore
    /\ dispatched = 1
    /\ Len(events) = 2
    /\ events[1].event.type = "Winit30WindowEventKeyboardInput"
    /\ events[2].event.type = "Winit30WindowEventReceivedText"
    /\ semSignals = 1

\* --------------------------------------------------------------------------
\* Claims about the outbound event queue
\* --------------------------------------------------------------------------
IsPrefix(s, t) == Len(s) <= Len(t) /\ SubSeq(t, 1, Len(s)) = s

\* the events the native event being dispatched converts to, tagged as
\* enqueue_event tags them
CurrentBatch ==
    IF Registered(ev.window_id)
    THEN push_events(<< >>, ev.window_id,
                     convert_event(ev.event, data[HandleOf(ev.window_id)]))
    ELSE << >>

\* how many events of CurrentBatch have been pushed
PushedOfBatch ==
    CASE lpc = "push_events" -> Len(CurrentBatch) - Len(batch)
      [] lpc = "waiting" -> Len(CurrentBatch)
      [] OTHER -> 0

\* C11: the outbound queue is FIFO. In every step, after it: the events
\* popped so far followed by the events still queued are exactly the events
\* pushed so far, in push order (pops return the events in the order the
\* loop thread pushed them, each at most once); consumers never change what
\* was pushed and what was popped only grows at the end; the loop pushes one
\* event at a time, at the back; and the last events pushed are the leading
\* events of the batch of the native event being dispatched, in the
\* converter's order and tagged with that native event's window id, the
\* whole batch once the dispatch is over (a batch is contiguous: nothing
\* else is pushed in between).
C11_PoppedInPushOrder ==
    [][ /\ popped' \o events' = pushed'
        /\ IsPrefix(popped, popped')
        /\ IsPrefix(pushed, pushed')
        /\ Len(pushed') <= Len(pushed) + 1
        /\ PushedOfBatch' >= 0
        /\ PushedOfBatch' <= Len(pushed')
        /\ SubSeq(pushed', Len(pushed') - PushedOfBatch' + 1, Len(pushed'))
             = SubSeq(CurrentBatch', 1, PushedOfBatch')
      ]_vars

\* C11 witness: a key press on one window and a resize of another window
\* were dispatched; a consumer popped the two events of the key press, in
\* the converter's order, while the resize event is still queued.
C11_Witness ==
    /\ Len(popped) = 2
    /\ popped[1].event.type = "Winit30WindowEventKeyboardInput"
    /\ popped[2].event.type = "Winit30WindowEventReceivedText"
    /\ popped[1].window_id = popped[2].window_id
    /\ Len(events) = 1
    /\ events[1].event.type = "WindowEventResized"
    /\ events[1].window_id # popped[1].window_id

\* C12: a pop on an empty queue returns null, writes none of the
\* out-parameters and leaves the queue empty; and a pop that follows such an
\* empty pop, once an event was pushed, returns the event at the head of the
\* queue: nothing pushed after an empty pop is lost.
C12_EmptyPopReturnsNothing ==
    [][ \A t \in Threads :
          PopEvent(t) =>
             /\ events = << >> =>
                   /\ popReturn' = "null"
                   /\ outParams' = outParams
                   /\ events' = << >>
                   /\ popped' = popped
                   /\ pushed' = pushed
             /\ (popReturn = "null" /\ events # << >>) =>
                   /\ popReturn' = "event"
                   /\ popped' = Append(popped, Head(events))
                   /\ outParams'.window_id = Head(events).window_id
                   /\ outParams'.event_type = Head(events).event.type
      ]_vars

\* C12 witness: a consumer popped the only event, popped again and got null
\* (the out-parameters still hold what the first pop wrote), and another
\* event was pushed after that: it is at the head of the queue for the next pop.
C12_Witness ==
    /\ Len(popped) = 1
    /\ popReturn = "null"
    /\ outParams.window_id = popped[1].window_id
    /\ outParams.event_type = popped[1].event.type
    /\ Len(events) = 1
    /\ lpc = "waiting"

\* --------------------------------------------------------------------------
\* Claims about the dispatch of native events to listeners
\* --------------------------------------------------------------------------
IsZeroResize(e) ==
    e.event.kind = "SurfaceResized" /\ e.event.width = 0 /\ e.event.height = 0

IsSizedResize(e) ==
    e.event.kind = "SurfaceResized" /\ ~(e.event.width = 0 /\ e.event.height = 0)

\* the calls the listeners that were registered when the dispatch started
\* are owed, in registration order
ExpectedCalls == [i \in 1..Len(ev.listeners) |-> ListenerCall(ev.listeners[i])]

\* C13: for a SurfaceResized event with a non-zero size the cached size of
\* the window is already the new size, and every resize listener of the
\* window has already been called, in every step that pushes an event of
\* that native event or signals the semaphore for it; for RedrawRequested
\* every redraw listener has already been called in the step that converts
\* the event.
C13_ListenersBeforePush ==
    [][ /\ ( /\ IsSizedResize(ev)
             /\ Registered(ev.window_id)
             /\ (pushed' # pushed \/ semSignals' # semSignals) )
           => /\ data[HandleOf(ev.window_id)].surface_size = SizeOf(ev.event)
              /\ invocations = ExpectedCalls
        /\ ( /\ ev.event.kind = "RedrawRequested"
             /\ Registered(ev.window_id)
             /\ lpc = "enqueue_event"
             /\ lpc' # "enqueue_event" )
           => invocations = ExpectedCalls
      ]_vars

\* C13 witness: a sized resize is being dispatched to a window with two
\* resize listeners; both were called and the resize event is about to be pushed.
C13_Witness ==
    /\ lpc = "push_events"
    /\ batch # << >>
    /\ IsSizedResize(ev)
    /\ Len(invocations) = 2
    /\ pushed = << >>

\* C14: a resize listener that reads the cached surface size of its window
\* while it is being called gets the read answered, with the size of the
\* event that is being dispatched: whenever the loop thread is inside such a
\* read, the getter can take the data mutex and return, and the cache holds
\* the event's size.
C14_ListenerReadsNewSize ==
    ( /\ lpc = "in_listener"
      /\ IsSizedResize(ev)
      /\ reading[Loop] = [handle |-> HandleOf(ev.window_id), field |-> "surface_size"] )
    => /\ dataLock[HandleOf(ev.window_id)] # Loop
       /\ data[HandleOf(ev.window_id)].surface_size = SizeOf(ev.event)

\* C15: a SurfaceResized event of 0x0 is a complete no-op: from the step
\* that starts its dispatch on, as long as it is the event being dispatched,
\* no cached surface size changes, no listener is called, nothing is pushed
\* and the semaphore is not signalled. A SurfaceResized event of 800x600 for
\* a registered window sets the cached size to 800x600 in the step that
\* starts its dispatch, pushes during its dispatch nothing but one resize
\* event carrying 800 and 600, and that event is the last one pushed when
\* the dispatch ends.
C15_ZeroSizeIgnored ==
    [][ /\ IsZeroResize(ev')
           => /\ \A h \in WindowIds : data'[h].surface_size = data[h].surface_size
              /\ invocations' = << >>
              /\ pushed' = pushed
              /\ events' = events
              /\ semSignals' = semSignals
        /\ (IsSizedResize(ev') /\ Registered(ev'.window_id))
           => LET resized == [window_id |-> ev'.window_id,
                              event |-> [type |-> "WindowEventResized",
                                         width |-> ev'.event.width,
                                         height |-> ev'.event.height]]
              IN  /\ data'[HandleOf(ev'.window_id)].surface_size = SizeOf(ev'.event)
                  /\ pushed' # pushed
                       => /\ pushed' = Append(pushed, resized)
                          /\ batch = << resized.event >>
                          /\ batch' = << >>
                  /\ (lpc # "waiting" /\ lpc' = "waiting")
                       => /\ pushed' # << >>
                          /\ pushed'[Len(pushed')] = resized
      ]_vars

\* C15 witness: an 800x600 resize and then a 0x0 resize of the same window
\* were dispatched: the cache still holds 800x600 and only the first one
\* produced an event.
C15_Witness ==
    /\ lpc = "waiting"
    /\ dispatched = 2
    /\ IsZeroResize(ev)
    /\ Registered(ev.window_id)
    /\ data[HandleOf(ev.window_id)].surface_size = [width |-> 800, height |-> 600]
    /\ Len(pushed) = 1
    /\ pushed[1].window_id = ev.window_id

\* C20: the listener lists only grow, at the end; while an event is
\* dispatched each call goes to the next listener in registration order,
\* with the size of the event; and when the for loop is left every listener
\* of the window for that kind of event has been called exactly once, in
\* registration order.
C20_ListenersCalledInOrder ==
    [][ /\ \A h \in WindowIds :
              /\ IsPrefix(data[h].window_resize_listeners, data'[h].window_resize_listeners)
              /\ IsPrefix(data[h].window_redraw_listeners, data'[h].window_redraw_listeners)
        /\ invocations' # invocations /\ invocations' # << >>
           => invocations' = Append(invocations,
                                    ListenerCall(CurrentListeners[Len(invocations) + 1]))
        /\ (lpc = "listeners" /\ lpc' = "enqueue_event")
           => invocations = [i \in 1..Len(CurrentListeners) |->
                                ListenerCall(CurrentListeners[i])]
      ]_vars

\* C20 witness: a second native event is dispatched and the two resize
\* listeners of its window, registered one after the other, were both
\* called, the first one first, each with 800 and 600.
C20_Witness ==
    /\ dispatched = 2
    /\ lpc = "enqueue_event"
    /\ Len(invocations) = 2
    /\ invocations[1] = [listener |-> 1, kind |-> "resized", width |-> 800, height |-> 600]
    /\ invocations[2] = [listener |-> 2, kind |-> "resized", width |-> 800, height |-> 600]

\* --------------------------------------------------------------------------
\* Claims about closed handles
\* --------------------------------------------------------------------------
IsClosed(h) == handles[h] # NoHandle /\ ~handles[h].window

\* C16: a geometry getter that returns on a closed handle returns the value
\* that was cached when the native window was taken, whatever operations and
\* native events followed the close.
C16_GettersReturnValueAtClose ==
    (opResult.op \in GeometryFields /\ ~opResult.open)
    => opResult.result = atClose[opResult.handle][opResult.op]

\* C17: closing is idempotent. A close leaves the handle closed, whichever
\* clone it is made on (the clones share the window cell); over all closes
\* of a handle the native window is dropped exactly once; a close of a handle
\* that is already closed changes nothing; and no close changes the id of
\* the handle, the cached data, the registry, the event queue or another handle.
C17_CloseIsIdempotent ==
    [][ /\ \A h \in WindowIds : drops'[h] <= 1
        /\ \A t \in Threads, h \in WindowIds :
             CloseWindowObserved(t, h) =>
                /\ IsClosed(h)'
                /\ drops'[h] = 1
                /\ opResult'.native = ~IsClosed(h)
                /\ handles'[h].id = handles[h].id
                /\ data' = data
                /\ windows' = windows
                /\ events' = events
                /\ \A g \in WindowIds \ {h} :
                      handles'[g] = handles[g] /\ drops'[g] = drops[g]
                /\ IsClosed(h) =>
                      /\ handles' = handles
                      /\ drops' = drops
                      /\ atClose' = atClose
      ]_vars

\* C17 witness: a handle that was already closed was closed again: the last
\* operation is a close that found no window, and one window was dropped.
C17_Witness ==
    /\ opResult.op = "close_window"
    /\ ~opResult.open
    /\ ~opResult.native
    /\ drops[opResult.handle] = 1
    /\ IsClosed(opResult.handle)

C19_ClosedOperationsFailExplicitly ==
    ( /\ opResult.op \in {"focus_window", "current_monitor"} \cup RawHandleOps
      /\ ~opResult.open )
    => opResult.result = "WindowIsClosed"

\* --------------------------------------------------------------------------
\* Claims about the life of the application and its failures
\* --------------------------------------------------------------------------

\* C21: once the receiver of the action channel was dropped, a call of
\* enqueue_action, of create_window or of request_surface_size panics on
\* the failed send: the thread leaves the call there (the failure reaches
\* the caller), the action is not put into the channel and is never handled,
\* and the wake_up of that call is never made. No call panics while the
\* receiver is alive.
C21_SendOnDroppedReceiverPanics ==
    /\ [][ \A t \in Threads :
             ( /\ ~ReceiverAlive
               /\ tpc[t] = "idle"
               /\ tpc'[t] # "idle" )
             => /\ tpc'[t] = "panicked"
                /\ channel' = channel
                /\ nextId' = nextId
                /\ handled' = handled
                /\ wakePending' = wakePending ]_vars
    /\ [][ \A t \in Threads :
             /\ tpc[t] = "panicked" => tpc'[t] = "panicked"
             /\ (tpc[t] # "panicked" /\ tpc'[t] = "panicked") => ~ReceiverAlive ]_vars
    /\ [](~ReceiverAlive => channel = << >>)

\* C21 witness: the loop handled an action and was left; a producer then
\* called enqueue_action and panicked, no wake-up is pending.
C21_Witness ==
    /\ lpc = "terminated"
    /\ handled # << >>
    /\ tpc["p1"] = "panicked"
    /\ ~wakePending
    /\ channel = << >>

\* C22: the application goes from Idle to Running to Terminated and takes
\* no other step between these states. It becomes Running only from Idle,
\* only by the winit_application_run that takes the Application out of its
\* box, and the value never returns to the box, so this happens at most
\* once; a winit_application_run that finds the value taken logs the
\* failure, starts no loop and leaves everything else as it was.
C22_LifecycleIsOneWay ==
    [][ /\ Lifecycle' # Lifecycle =>
              \/ /\ Lifecycle = "Idle"
                 /\ Lifecycle' = "Running"
                 /\ boxes.application = "value"
                 /\ boxes'.application = "taken"
                 /\ ffi'.entry = "winit_application_run"
              \/ /\ Lifecycle = "Running"
                 /\ Lifecycle' = "Terminated"
        /\ boxes.application = "taken" => boxes'.application = "taken"
        /\ (ffi' # ffi /\ boxes.application = "taken") =>
              /\ ffi'.entry = "winit_application_run"
              /\ ffi'.logged
              /\ lpc' = lpc
              /\ channel' = channel
              /\ handled' = handled
              /\ windows' = windows
      ]_vars

\* C22 witness: the application was run, handled an action and terminated;
\* winit_application_run was then called on the same address again and
\* logged its failure.
C22_Witness ==
    /\ lpc = "terminated"
    /\ handled # << >>
    /\ ffi.entry = "winit_application_run"
    /\ ffi.found = "NoValue"
    /\ ffi.logged

\* C23 as stated: no failure while an action or a native event is handled
\* ends the loop, a failing user callback included: whenever a user
\* callback is over, the application is still Running.
C23_Original ==
    [][ (InCallback /\ ~InCallback') => Lifecycle' = "Running" ]_vars

\* C23: a window creation that fails, a resize request (whatever the native
\* layer answers), an action for a window id that is unknown or closed and
\* a native event for an id that is unknown or closed leave the application
\* Running, with the loop thread back in the drain or back in the native
\* loop; the application leaves Running only when the native layer leaves
\* the loop while it waits, or when a user callback panics (handle_action
\* does not catch it).
C23_LoopSurvivesHandledFailures ==
    /\ [][ ( /\ handled' # handled
             /\ cur'.kind = "CreateWindow"
             /\ nativeCreated' = nativeCreated )
           => lpc' = "drain" ]_vars
    /\ [][ ( /\ handled' # handled
             /\ cur'.kind = "RequestWindowSurfaceSize" )
           => lpc' \in {"drain", "resize_native"} ]_vars
    /\ [][ lpc = "resize_native" => lpc' \in {"drain", "resize_native"} ]_vars
    /\ [][ dispatched' # dispatched => lpc' = "waiting" ]_vars
    /\ [][ (Lifecycle = "Running" /\ Lifecycle' # "Running")
           => (lpc = "waiting" \/ InCallback) ]_vars

\* C23 witness: two actions were handled and neither created a window, the
\* second one a resize request that was dropped, and a native event was
\* dispatched while no window id is registered; the loop is waiting for the
\* next event.
C23_Witness ==
    /\ lpc = "waiting"
    /\ Len(handled) = 2
    /\ cur.kind = "RequestWindowSurfaceSize"
    /\ nativeCreated = << >>
    /\ nativeResizes = << >>
    /\ dispatched = 1
    /\ \A i \in DOMAIN wakeSignals : wakeSignals[i] = 1

\* C29: when the native layer fails to create the window of a CreateWindow
\* action, handling the action builds and registers nothing, calls no
\* callback and puts nothing back into the channel, and the loop thread
\* goes on with the drain; no completion callback is ever called for an
\* action whose window was not created, no action is handled twice, and the
\* drain still ends with one signal to every wake-up signaller.
C29_FailedCreationIsDropped ==
    /\ [][ ( /\ handled' # handled
             /\ cur'.kind = "CreateWindow"
             /\ nativeCreated' = nativeCreated )
           => /\ handles' = handles
              /\ windows' = windows
              /\ data' = data
              /\ boxes' = boxes
              /\ nativeCount' = nativeCount
              /\ callbacks' = callbacks
              /\ channel' = Tail(channel)
              /\ lpc' = "drain" ]_vars
    /\ [](/\ \A i \in 1..Len(callbacks) :
                \E j \in 1..Len(nativeCreated) :
                    nativeCreated[j].action = callbacks[i].action
          /\ \A i, j \in 1..Len(handled) : handled[i].id = handled[j].id => i = j
          /\ \A i \in 1..Len(handled), j \in 1..Len(channel) :
                handled[i].id # channel[j].id
          /\ (lpc = "waiting" /\ handled # << >>) =>
                \A i \in DOMAIN wakeSignals : wakeSignals[i] = 1)

\* C29 witness: two actions were sent before the drain started, the second
\* one a CreateWindow whose native creation failed; both were handled, no
\* window exists, no callback ran, and the drain ended with its signal.
C29_Witness ==
    /\ sentAtStart = 2
    /\ Len(handled) = 2
    /\ cur.kind = "CreateWindow"
    /\ cur.id = 2
    /\ nativeCreated = << >>
    /\ callbacks = << >>
    /\ channel = << >>
    /\ lpc = "waiting"
    /\ \A i \in DOMAIN wakeSignals : wakeSignals[i] = 1

\* --------------------------------------------------------------------------
\* Claims about the event converter
\* --------------------------------------------------------------------------
\* the step dispatches the native event kept in ev' for a registered window
Converted == WindowEventObserved(dispatched', ev'.window_id, ev'.event)
\* the events pushed by the step
NewlyPushed == SubSeq(pushed', Len(pushed) + 1, Len(pushed'))
\* the key a keyboard event has to report
ChosenKey(event) ==
    IF event.location = "Numpad" THEN event.logical_key ELSE event.key_without_modifiers

\* C25: for every KeyboardInput native event the keyboard-input event that is
\* emitted reports the fully-modified logical key when the key location is
\* the numeric keypad and the key without modifiers for the standard, left
\* and right locations; its key type is Named with the code of that key,
\* Character with the string of that key, or Unknown with neither, according
\* to the chosen key.
C25_RelevantKeyByLocation ==
    [][(Converted /\ ev'.event.kind = "KeyboardInput") =>
          LET reported == NewlyPushed[1].event
              chosen == ChosenKey(ev'.event)
          IN  /\ reported.type = "Winit30WindowEventKeyboardInput"
              /\ reported.key_location = WinitKeyLocation_from(ev'.event.location)
              /\ chosen.variant = "Named" =>
                    /\ reported.key_type = "Named"
                    /\ reported.named_key = VirtualKeyCode_from(chosen.value)
                    /\ reported.character_key = NullString
              /\ chosen.variant = "Character" =>
                    /\ reported.key_type = "Character"
                    /\ reported.character_key = StringBox(chosen.value)
                    /\ reported.named_key = VirtualKeyCode_from("Unknown")
              /\ chosen.variant \notin {"Named", "Character"} =>
                    /\ reported.key_type = "Unknown"
                    /\ reported.character_key = NullString
                    /\ reported.named_key = VirtualKeyCode_from("Unknown")]_vars

\* C25 witness: a key of the numeric keypad whose logical key is the
\* character 7 and whose key without modifiers is Home was converted, and the
\* event pushed for it reports the character 7.
C25_Witness ==
    /\ ev.event.kind = "KeyboardInput"
    /\ ev.event.location = "Numpad"
    /\ ev.event.logical_key = CharacterKey("7")
    /\ ev.event.key_without_modifiers = NamedKey("Home")
    /\ Len(pushed) >= 1
    /\ pushed[1].window_id = ev.window_id
    /\ pushed[1].event.type = "Winit30WindowEventKeyboardInput"
    /\ pushed[1].event.key_type = "Character"
    /\ pushed[1].event.character_key = StringBox("7")
    /\ pushed[1].event.key_location = WinitKeyLocation_from("Numpad")


\* the text-received event that carries `string`
ReceivedText(string) ==
    [type |-> "Winit30WindowEventReceivedText", text |-> StringBox(string)]

\* C26: for every KeyboardInput native event exactly one keyboard-input event
\* is pushed, first; exactly one text-received event with the text follows it
\* if and only if the key is pressed and the platform supplied
\* text_with_all_modifiers, so a released key and a pressed key without text
\* yield the keyboard-input event alone. An IME commit yields exactly one
\* text-received event that carries the committed string.
C26_TextFollowsPressedKey ==
    [][Converted =>
          LET event == ev'.event
              with_text == event.state = "Pressed" /\ event.text_with_all_modifiers.some
          IN  /\ event.kind = "KeyboardInput" =>
                    /\ Len(NewlyPushed) = IF with_text THEN 2 ELSE 1
                    /\ NewlyPushed[1].window_id = ev'.window_id
                    /\ NewlyPushed[1].event.type = "Winit30WindowEventKeyboardInput"
                    /\ NewlyPushed[1].event.state = event.state
                    /\ with_text =>
                          NewlyPushed[2] =
                              [window_id |-> ev'.window_id,
                               event |-> ReceivedText(event.text_with_all_modifiers.value)]
              /\ (event.kind = "Ime" /\ event.ime = "Commit") =>
                    NewlyPushed = << [window_id |-> ev'.window_id,
                                      event |-> ReceivedText(event.string)] >>]_vars

\* C26 witness: a released key for which the platform supplied text was
\* converted, and the keyboard-input event is the only event pushed for it.
C26_Witness ==
    /\ ev.event.kind = "KeyboardInput"
    /\ ev.event.state = "Released"
    /\ ev.event.text_with_all_modifiers = SomeText("7")
    /\ Len(pushed) = 1
    /\ pushed[1].window_id = ev.window_id
    /\ pushed[1].event.type = "Winit30WindowEventKeyboardInput"
    /\ pushed[1].event.state = "Released"

\* C27: for every MouseWheel native event with delta (x, y) the mouse-wheel
\* event that is pushed carries (-x, y), for a line delta and for a pixel
\* delta, and its delta type is the form of the native delta; a line delta of
\* (1, 2) becomes a LineDelta of (-1, 2).
C27_WheelDeltaInvertsHorizontal ==
    [][(Converted /\ ev'.event.kind = "MouseWheel") =>
          /\ Len(NewlyPushed) = 1
          /\ NewlyPushed[1].window_id = ev'.window_id
          /\ NewlyPushed[1].event.type = "WindowEventMouseWheel"
          /\ NewlyPushed[1].event.delta.delta_type = ev'.event.delta.form
          /\ NewlyPushed[1].event.delta.x = 0 - ev'.event.delta.x
          /\ NewlyPushed[1].event.delta.y = ev'.event.delta.y]_vars

\* C27 witness: the line delta (1, 2) was converted and pushed as the
\* LineDelta (-1, 2).
C27_Witness ==
    /\ ev.event.kind = "MouseWheel"
    /\ ev.event.delta = [form |-> "LineDelta", x |-> 1, y |-> 2]
    /\ Len(pushed) = 1
    /\ pushed[1].event.type = "WindowEventMouseWheel"
    /\ pushed[1].event.delta = [delta_type |-> "LineDelta", x |-> -1, y |-> 2]


\* C28: for every ScaleFactorChanged native event with the new scale factor s
\* for a registered window, after any resize and scale factor events before
\* it, the event that is pushed carries s and the physical size that the
\* window's current logical size (the surface size the native window has,
\* divided by the scale factor it has) takes at s, and exactly that size is
\* requested from the native layer while the event is converted.
C28_ScaleChangeKeepsLogicalSize ==
    [][(Converted /\ ev'.event.kind = "ScaleFactorChanged") =>
          LET h == HandleOf(ev'.window_id)
              s == ev'.event.scale_factor
              current == to_logical(nativeWindows[h].surface_size,
                                    nativeWindows[h].scale_factor)
              expected == to_physical(current, s)
          IN  /\ NewlyPushed =
                    << [window_id |-> ev'.window_id,
                        event |-> [type |-> "WindowEventScaleFactorChanged",
                                   scale_factor |-> s,
                                   width |-> expected.width,
                                   height |-> expected.height]] >>
              /\ nativeWindows'[h].requested = expected]_vars


\* the resize events pushed so far for window id wid
PushedResizes(wid) ==
    SelectSeq(pushed, LAMBDA e : e.window_id = wid /\ e.event.type = "WindowEventResized")
\* the size the handle of wid has to hold: the size of the last resize event
\* pushed for it, or the size it was created with when none was pushed
LastPushedSize(wid) ==
    IF PushedResizes(wid) = << >>
    THEN NativeGeometry.surface_size
    ELSE LET last == PushedResizes(wid)[Len(PushedResizes(wid))].event
         IN  [width |-> last.width, height |-> last.height]
\* the calls of the resize listeners that the handle had when the event
\* being dispatched came in, with the size of that event
ResizeCalls ==
    [i \in 1..Len(ev.listeners) |->
        [listener |-> ev.listeners[i], kind |-> "resized",
         width |-> ev.event.width, height |-> ev.event.height]]

\* C30: window_event and the handle ignore the same SurfaceResized events.
\* Whenever the loop waits for the next event, the cached surface size of
\* every registered window is the size of the last resize event pushed for
\* it (the size it was created with if none was pushed), for sizes with no,
\* one and two zero dimensions: the cache changes if and only if an event is
\* pushed. The handle calls the resize listeners it has when it stores the
\* size, an event is pushed only after each of them was called with that
\* size, and when the converter returns nothing no listener was called.
C30_SameSuppressionRule ==
    /\ [](lpc = "waiting" =>
            \A wid \in WindowIds :
                Registered(wid) => data[HandleOf(wid)].surface_size = LastPushedSize(wid))
    /\ [][(pushed' # pushed /\ ev.event.kind = "SurfaceResized") =>
            /\ pushed' = Append(pushed, [window_id |-> ev.window_id,
                                         event |-> [type |-> "WindowEventResized",
                                                    width |-> ev.event.width,
                                                    height |-> ev.event.height]])
            /\ data[HandleOf(ev.window_id)].surface_size = SizeOf(ev.event)
            /\ invocations = ResizeCalls]_vars
    /\ [][(lpc = "waiting" /\ lpc' = "listeners" /\ ev'.event.kind = "SurfaceResized") =>
            /\ data'[HandleOf(ev'.window_id)].surface_size = SizeOf(ev'.event)
            /\ ev'.listeners = data'[HandleOf(ev'.window_id)].window_resize_listeners]_vars
    /\ [][(lpc = "enqueue_event" /\ lpc' = "push_events" /\ batch' = << >>) =>
            /\ invocations = << >>
            /\ ev.listeners = << >>]_vars

\* C30 witness: the size 800x0 was reported for a window that has a resize
\* listener: the listener was called with 800 and 0, the cache holds 800x0
\* and the resize event with 800 and 0 is the last one pushed.
C30_Witness ==
    /\ lpc = "waiting"
    /\ ev.event = [kind |-> "SurfaceResized", width |-> 800, height |-> 0]
    /\ Registered(ev.window_id)
    /\ invocations = << [listener |-> 1, kind |-> "resized", width |-> 800, height |-> 0] >>
    /\ data[HandleOf(ev.window_id)].surface_size = [width |-> 800, height |-> 0]
    /\ pushed # << >>
    /\ pushed[Len(pushed)] = [window_id |-> ev.window_id,
                              event |-> [type |-> "WindowEventResized",
                                         width |-> 800, height |-> 0]]


\* --------------------------------------------------------------------------
\* Claims about the foreign boundary
\* --------------------------------------------------------------------------
\* the default result of an entry point
DefaultResult(entry) ==
    CASE entry = "winit_window_handle_get_id" -> "0"
      [] entry = "winit_window_handle_get_scale_factor" -> "1.0"
      [] entry = "winit_application_wake" -> "false"
      [] entry = "winit_application_handle_pop_event" -> "null"

\* C24: an entry point that is called with a null address or with an address
\* that was released logs the failure and returns its default result (0 for
\* get_id, 1.0 for get_scale_factor, false for winit_application_wake, a null
\* pointer for pop_event), reads nothing behind the address and changes
\* nothing of the application, the windows, the channel and the event queue.
C24_InvalidAddressIsRefused ==
    [][(ffi' # ffi /\ ffi'.box \in {"null", "released"}) =>
          /\ ffi'.found = "NullPointer"
          /\ ffi'.logged
          /\ ffi'.result = DefaultResult(ffi'.entry)
          /\ UNCHANGED << channel, nextId, wakePending, tpc, lpc, cur, windows,
                          windowsLock, handles, windowLock, nativeCount, events,
                          semaphore, semSignals, wakeSignals, dispatched,
                          sentAtStart, handled, callbacks, nativeCreated,
                          nativeResizes, data, dataLock, ev, li, batch,
                          invocations, reading, pushed, popped, outParams,
                          opResult, atClose, drops, boxes, nativeWindows >>]_vars


\* --------------------------------------------------------------------------
\* Claims about the mutexes, the registry and the drain
\* --------------------------------------------------------------------------
\* the loop thread holds the registry mutex or the data mutex of a window
LoopHoldsMutex ==
    \/ windowsLock = Loop
    \/ \E h \in WindowIds : dataLock[h] = Loop

\* C31: no user-supplied callback runs while the loop thread holds the
\* registry mutex or the data mutex of a window: the loop thread holds
\* neither while it is inside a resize or redraw listener, and it holds
\* neither in the step that signals the semaphore.
C31_NoCallbackUnderMutex ==
    /\ [](lpc = "in_listener" => ~LoopHoldsMutex)
    /\ [][semSignals' # semSignals => ~LoopHoldsMutex]_vars

\* the handle of the window the loop thread is dispatching to, 0 if the id
\* is not registered
DispatchedHandle == IF Registered(ev.window_id) THEN HandleOf(ev.window_id) ELSE 0
\* the window ids the native layer has created windows for
CreatedIds == { nativeCreated[n].id : n \in 1..Len(nativeCreated) }
\* C32: the registry never shrinks: an entry of the registry stays what it
\* is in every step, the step that closes the handle included; an event for
\* a window that was created is always taken by enqueue_event as an event of
\* a registered window, and when enqueue_event returns, the events the
\* native event converts to are in the queue under its id and the semaphore
\* was signalled once if there are any, whether the handle is closed or not.
C32_RegistryNeverShrinks ==
    /\ [][\A w \in WindowIds : windows[w] # 0 => windows'[w] = windows[w]]_vars
    /\ [][lpc = "enqueue_event" /\ lpc' # lpc /\ ev.window_id \in CreatedIds
            => lpc' = "push_events" /\ batch' = convert_event(ev.event, data[HandleOf(ev.window_id)])]_vars
    /\ [][lpc = "push_events" /\ lpc' = "waiting"
            => /\ ev.window_id \in CreatedIds
               /\ pushed = SubSeq(pushed, 1, Len(pushed) - Len(CurrentBatch)) \o CurrentBatch
               /\ semSignals' = semSignals
                                   + (IF semaphore /\ CurrentBatch # << >> THEN 1 ELSE 0)]_vars

\* a size was reported for a window after its handle was closed: the cache
\* differs from what it was at the close, the resize event is the last one
\* in the queue and the semaphore was signalled
C32_Witness ==
    /\ lpc = "waiting"
    /\ drops[1] = 1
    /\ ~handles[1].window
    /\ atClose[1].surface_size = NativeGeometry.surface_size
    /\ data[1].surface_size = [width |-> 800, height |-> 600]
    /\ pushed # << >>
    /\ pushed[Len(pushed)] = [window_id |-> 1,
                              event |-> [type |-> "WindowEventResized",
                                         width |-> 800, height |-> 600]]
    /\ semSignals >= 1

\* the step leaves the caches, the native windows, the queue and the
\* semaphore as they are
NothingPublished ==
    UNCHANGED << data, dataLock, nativeWindows, events, pushed, semSignals >>

\* C33: a native event for a window id that is not in the registry is
\* dropped without effect, whatever its kind: window_event goes straight to
\* enqueue_event and enqueue_event straight back to the event loop, no
\* listener is called, and neither step changes a cache, a native window,
\* the outbound queue or the count of semaphore signals; the loop thread is
\* never in a listener or in the push loop for such an id.
C33_UnknownWindowIsDropped ==
    /\ [][lpc = "waiting" /\ dispatched' # dispatched /\ ev'.window_id \notin CreatedIds
            => lpc' = "enqueue_event" /\ invocations' = << >> /\ NothingPublished]_vars
    /\ [][lpc = "enqueue_event" /\ lpc' # lpc /\ ev.window_id \notin CreatedIds
            => lpc' = "waiting" /\ invocations' = << >> /\ NothingPublished]_vars
    /\ [](lpc \in {"listeners", "in_listener", "push_events"}
            => ev.window_id \in CreatedIds)

\* a size was reported for a window id that is not registered while another
\* window has a resize listener and a semaphore is configured: the loop
\* thread is back in the event loop, nothing was called, queued or signalled
C33_Witness ==
    /\ lpc = "waiting"
    /\ dispatched = 1
    /\ ev.window_id \notin CreatedIds
    /\ ev.event.kind = "SurfaceResized"
    /\ data[1].window_resize_listeners # << >>
    /\ semaphore
    /\ invocations = << >>
    /\ pushed = << >>
    /\ semSignals = 0

\* C34: the semaphore is signalled only once every event of the batch has
\* been pushed (the step that signals starts with nothing of the batch left
\* to push, and the batch is the end of what was pushed); a signal announces
\* a batch that is not empty; the number of signals never exceeds the number
\* of events pushed; and under ConsumerSpec, when a semaphore signaller is
\* configured, the consumer that pops until the queue reports empty after
\* each signal again and again has received every event pushed so far.
C34_SignalFollowsBatch ==
    /\ [][semSignals' # semSignals
            => /\ semSignals' = semSignals + 1
               /\ lpc = "push_events" /\ batch = << >>
               /\ CurrentBatch # << >>
               /\ Len(CurrentBatch) <= Len(pushed)
               /\ SubSeq(pushed, Len(pushed) - Len(CurrentBatch) + 1, Len(pushed))
                     = CurrentBatch
               /\ pushed' = pushed]_vars
    /\ [](semSignals <= Len(pushed))
    /\ [](acquired <= semSignals)
    /\ []<>(semaphore => popped = pushed)

\* a key press was dispatched with a semaphore configured: its two events
\* were pushed, then one signal was issued, the consumer took it and popped
\* both events and then found the queue empty
C34_Witness ==
    /\ semaphore
    /\ semSignals = 1
    /\ acquired = 1
    /\ Len(pushed) = 2
    /\ popped = pushed
    /\ popReturn = "null"
    /\ tpc["p1"] = "idle"
    /\ lpc = "waiting"

\* the step is a send of the loop thread
CallbackSends == tpc[Loop] = "idle" /\ tpc'[Loop] = "sent"

LockOrder ==
    /\ \A h \in WindowIds :
          (dataLock[h] = Loop \/ windowLock[h] = Loop) => windowsLock = Loop
    /\ lpc = "push_events" => windowsLock = Loop
\* a handle operation holds its one mutex for the time of a copy or of a
\* native call: between two steps only the loop thread holds a mutex, and
\* only while it is inside the handler that took it
HeldByHandler ==
    /\ windowsLock \in {NoThread, Loop}
    /\ \A h \in WindowIds : dataLock[h] \in {NoThread, Loop}
                            /\ windowLock[h] \in {NoThread, Loop}
    /\ windowsLock = Loop => lpc \in {"listeners", "in_listener", "push_events",
                                       "resize_native"}
\* a thread that is inside the library can take a step, or waits for a mutex
\* whose holder can take a step
CanProceed ==
    /\ lpc # "waiting" => ENABLED (DispatchStep \/ DrainStep)
    /\ tpc["p1"] = "sent" => ENABLED EnqueueWake("p1")
    /\ reading["p2"] # NoRead
          => \/ ENABLED GetGeometryReturn("p2")
             \/ dataLock[reading["p2"].handle] = Loop /\ ENABLED DispatchStep

\* C36: the mutexes are taken in one order and no deadlock is reached: in
\* every state of LockSpec (listeners that only return) the loop thread
\* holds a data mutex or a window mutex only under the registry mutex and
\* pushes to the queue only under the registry mutex, no mutex is held
\* outside the handler that took it, and every thread that is inside a
\* handler or a handle operation either can take its next step or waits for
\* a mutex whose holder can.
C36_NoDeadlock == LockOrder /\ HeldByHandler /\ CanProceed

\* every kind of operation has run on the first window and a getter waits:
\* a resize request was handled under the registry and window mutexes, a
\* listener is being called under the registry and data mutexes while a
\* producer thread waits for the data mutex, the handle was closed and an
\* event was popped
C36_Witness ==
    /\ lpc = "in_listener"
    /\ windowsLock = Loop
    /\ dataLock[1] = Loop
    /\ reading["p2"] = [handle |-> 1, field |-> "surface_size"]
    /\ nativeResizes # << >>
    /\ ~handles[1].window
    /\ popped # << >>

\* the actions whose native window was created
CreatedActions == { nativeCreated[n].action : n \in 1..Len(nativeCreated) }
\* the step is a call of winit_application_handle_create_window
CreateWindowCalled ==
    /\ ffi'.entry = "winit_application_handle_create_window"
    /\ ffi' # ffi \/ createCalls'.enqueued # createCalls.enqueued

\* C37: for a window created through winit_application_handle_create_window
\* the out-pointer is written before the semaphore signaller of the call is
\* signalled (the signalling step finds the out-pointer written with the
\* handle given to the callback and leaves it); the signaller is signalled
\* once per successful creation (never more than once, and once when the
\* callback returns); a call whose native creation failed or has not
\* happened has no out-pointer written and no signal, and the failure goes
\* straight back to the drain; a call that enqueues leaves the box of
\* attributes without its value, and a call on a box without value enqueues
\* nothing.
C37_HandleWrittenBeforeSignal ==
    /\ [][createCalls'.signalled # createCalls.signalled
            => /\ createCalls.window_handle[cur.id] = CallbackHandle
               /\ CallbackHandle # 0
               /\ createCalls'.window_handle = createCalls.window_handle
               /\ createCalls'.signalled =
                     [createCalls.signalled EXCEPT ![cur.id] = 1]]_vars
    /\ [](\A a \in ActionIds :
            /\ createCalls.signalled[a] <= 1
            /\ (createCalls.signalled[a] # 0 \/ createCalls.window_handle[a] # 0)
                  => a \in CreatedActions /\ a \in createCalls.enqueued)
    /\ [][lpc = "cw_callback" /\ lpc' # lpc
            => createCalls.signalled[cur.id] = 1 /\ createCalls.window_handle[cur.id] # 0]_vars
    /\ [][lpc = "drain" /\ cur' # cur /\ cur'.id \notin CreatedActions'
            => lpc' = "drain" /\ createCalls' = createCalls]_vars
    /\ [][CreateWindowCalled
            => /\ ffi'.found = "Ok"
                    => /\ createCalls.window_attributes[ffi'.index] = "value"
                       /\ createCalls'.window_attributes[ffi'.index] = "taken"
                       /\ Len(channel') = Len(channel) + 1
               /\ ffi'.found # "Ok"
                    => /\ channel' = channel
                       /\ nextId' = nextId
                       /\ createCalls' = createCalls
               /\ (ffi'.index # 0 /\ createCalls.window_attributes[ffi'.index] = "taken")
                    => ffi'.found # "Ok"]_vars

\* two calls were made with the same box of attributes and a third failed
\* natively: the first call was enqueued, its window was created, its
\* out-pointer holds the handle and its signaller was signalled once; the
\* call repeated on the emptied box found no value and enqueued nothing; the
\* call whose creation failed has neither a handle nor a signal
C37_Witness ==
    /\ lpc = "waiting"
    /\ createCalls.window_attributes[1] = "taken"
    /\ createCalls.enqueued = {1, 2}
    /\ CreatedActions = {1}
    /\ createCalls.window_handle = [a \in ActionIds |-> IF a = 1 THEN 1 ELSE 0]
    /\ createCalls.signalled = [a \in ActionIds |-> IF a = 1 THEN 1 ELSE 0]
    /\ Len(handled) = 2
    /\ ffi.found = "NoValue"
    /\ ffi.index = 1

\* the event of ev' is a size report that is not 0x0
SizeReported ==
    /\ ev'.event.kind = "SurfaceResized"
    /\ ~(ev'.event.width = 0 /\ ev'.event.height = 0)

\* C38: a native event dispatched through window_event changes the cached
\* data of a handle only if it is a SurfaceResized whose size is not 0x0,
\* and then only the cached surface size of the handle of that window, which
\* becomes the reported size; a Moved and a ScaleFactorChanged event are
\* converted and pushed under the window's id while every cache stays as it
\* is; a cached outer position changes only in a step that is not a dispatch
\* (a direct on_window_moved call), and the cached scale factor of a handle
\* is always the one captured when the handle was created.
C38_DispatchChangesOnlySize ==
    /\ [][Converted
            => /\ \A h \in WindowIds :
                     data'[h] = IF SizeReported /\ h = HandleOf(ev'.window_id)
                                THEN [data[h] EXCEPT !.surface_size = SizeOf(ev'.event)]
                                ELSE data[h]
               /\ ev'.event.kind = "Moved"
                     => NewlyPushed = << [window_id |-> ev'.window_id,
                                          event |-> [type |-> "WindowEventMoved",
                                                     x |-> ev'.event.x,
                                                     y |-> ev'.event.y]] >>
               /\ ev'.event.kind = "ScaleFactorChanged"
                     => /\ Len(NewlyPushed) = 1
                        /\ NewlyPushed[1].window_id = ev'.window_id
                        /\ NewlyPushed[1].event.type = "WindowEventScaleFactorChanged"
                        /\ NewlyPushed[1].event.scale_factor = ev'.event.scale_factor]_vars
    /\ [][(\E h \in WindowIds : data'[h].outer_position # data[h].outer_position)
            => dispatched' = dispatched /\ pushed' = pushed]_vars
    /\ [](\A h \in WindowIds :
            handles[h] # NoHandle => data[h].scale_factor = NativeGeometry.scale_factor)

\* a change of the scale factor and then a move were reported for the first
\* window: both events are in the queue, and the handle still has the outer
\* position and the scale factor it was created with
C38_Witness ==
    /\ dispatched = 2
    /\ Len(pushed) = 2
    /\ pushed[1].event.type = "WindowEventScaleFactorChanged"
    /\ pushed[1].event.scale_factor = 2
    /\ pushed[2] = [window_id |-> 1,
                    event |-> [type |-> "WindowEventMoved", x |-> 30, y |-> 40]]
    /\ data[1].outer_position = NativeGeometry.outer_position
    /\ data[1].scale_factor = NativeGeometry.scale_factor
    /\ data[1].surface_size = NativeGeometry.surface_size

====
